---------------------------- MODULE Spec2Model ----------------------------
(***************************************************************************)
(* Verification model of betachip: a screen capturer feeding a bounded     *)
(* frame queue (capture/mss_capture.py), the mosaic processor              *)
(* (detection/mosaic_processor.py), the protected full-screen overlay      *)
(* (overlay/pygame_overlay.py) and the orchestrator MosaicApp (main.py).   *)
(*                                                                         *)
(* Frames are identified by the sequence number of the grab that produced  *)
(* them (1, 2, ...); None is modelled as 0.                                *)
(***************************************************************************)
EXTENDS Integers, Sequences, FiniteSets, TLC

\* ------------------------------------------------------------------ bounds
\* Number of successful screen grabs the screen model allows.
MaxShots == 4

\* Width and height of the frames of the masking model.
MaskSize == 2
\* Length of self.exclude_regions.
MaxRegions == 1

\* Height of the frames of the mosaic model (their width is one more).
MosaicSize == 2
\* Number of detections detect_objects() returns for one frame.
MaxDetections == 1
\* Largest mosaic strength the strength slider is set to.
MaxStrength == 2

\* Number of times start_censoring() gets past its guard.
MaxSessions == 2
\* Number of replaced threads that are still running.
MaxZombies == 1
\* Number of frames a processing thread counts.
MaxFrames == 2

\* ------------------------------------------------------- program constants
\* queue.Queue(maxsize=self.config.get('queue_size', 2)): the capture config
\* has no 'queue_size' key, so the default applies.
queue_capacity == 2
\* "if retry_count > 5" in _capture_thread_func
RetryLimit == 5
\* set_strength: self.strength = max(1, min(50, strength))
StrengthLow == 1
StrengthHigh == 50

None == 0
\* HCBT_ACTIVATE = 5
HCBT_ACTIVATE == 5
\* 'conf_threshold': 0.1, in tenths
conf_threshold == 1

VARIABLES
    \* ---- ScreenCapturer
    frame_queue,    \* self.frame_queue: sequence of frames, oldest first
    stop_event,     \* self.stop_event.is_set()
    cap_pc,         \* position of the capture thread (self.capture_thread)
    cap_frame,      \* local 'frame' of _capture_thread_func
    retry_count,    \* local 'retry_count' of _capture_thread_func
    prev_frame,     \* self.prev_frame
    shots,          \* number of successful grabs of the screen so far
    cap_caller,     \* position of the thread calling start/stop_capture_thread
    \* ---- observation of the capturer's interface (history variables)
    gf,             \* what the last get_frame() call did and returned
    everPushed,     \* a frame has been put into the queue at some time
    pushLog,        \* frames put since the last run of pops began
    stop_pushes,    \* frames put while stop_event has been set
    cap_replaced,   \* capture threads still running that self.capture_thread
                    \* no longer names
    drained,        \* frames popped by get_frame() since the last put
    \* ---- exclusion masking of _capture_screen
    exclude_regions, \* self.exclude_regions: sequence of <<x, y, w, h>>
    mk_img,          \* the image the last _capture_screen() returned
    mk_cfg,          \* the exclusion regions that capture was made with
    \* ---- one frame through detection and mosaic
    targets,         \* self.processor.targets
    strength,        \* self.processor.strength
    strength_var,    \* self.strength_var.get()
    mz_pc,           \* "config", "detect", "apply" or "shown"
    mz_in,           \* original_frame
    mz_dets,         \* detections: sequence of [class_name, bbox]
    mz_out,          \* the frame handed on: [frame, raised]
    mz_calls,        \* the apply_mosaic calls made for this frame
    mz_detect,       \* how detect_objects() ended: "ok", "no_model", "raised"
    \* ---- MosaicApp (main.py)
    is_running,      \* self.is_running
    start_button,    \* state of self.start_button: "normal" or "disabled"
    stop_button,     \* state of self.stop_button
    process_thread,  \* self.process_thread and the threads it replaced
    after_q,         \* pending root.after(0, self.stop_censoring) callbacks
    sessions,        \* number of start_censoring() runs that passed the guard
    main_pc,         \* position of the Tk main thread
    main_stack,      \* the main thread's pending returns, innermost first
    \* ---- PygameOverlay (overlay/pygame_overlay.py)
    is_visible,      \* overlay.is_visible
    ov_is_running,   \* overlay.is_running
    force_topmost,   \* overlay.force_topmost
    hook_installed,  \* overlay.hook_installed
    topmost_stop_event, \* overlay.topmost_stop_event.is_set()
    hwnd,            \* overlay.hwnd: "none", "live" or "stale"
    display_thread,  \* overlay.display_thread and the threads it replaced
    topmost_thread,  \* overlay.topmost_thread and the threads it replaced
    current_frame,   \* overlay.current_frame: session of the frame, 0 = None
    \* ---- the desktop
    platform,        \* "full", "degraded" or "none", fixed at start
    win,             \* the pygame window as the window manager holds it
    foreground,      \* GetForegroundWindow(): "overlay" or "other"
    \* ---- observation of the session (history variables)
    noops,           \* kinds of calls made when there was nothing to stop
    topmost_log,     \* activation events against watchdog cycles
    \* ---- the watchdog threads taken step by step
    keeper_mid,      \* the watchdog threads between loop test and z-order calls
    \* ---- the two locks
    locks,           \* owner of each lock, position of each thread, queue length
    \* ---- the frame buffers
    fr,              \* which buffer each variable of each thread refers to
    stats,           \* app.stats: the three session counters
    workers          \* is_running, the main thread and the processing threads
                     \* as far as they read or write the counters

capVars == <<frame_queue, stop_event, cap_pc, cap_frame, retry_count,
             prev_frame, shots, cap_caller>>
capHist == <<gf, everPushed, pushLog, drained, stop_pushes, cap_replaced>>

maskVars == <<exclude_regions, mk_img, mk_cfg>>

mosaicVars == <<targets, strength, strength_var, mz_pc, mz_in, mz_dets, mz_out,
                mz_calls, mz_detect>>

appVars == <<is_running, start_button, stop_button, process_thread, after_q,
             sessions, main_pc, main_stack>>
overlayVars == <<is_visible, ov_is_running, force_topmost, hook_installed,
                 topmost_stop_event, hwnd, display_thread, topmost_thread,
                 current_frame>>
desktopVars == <<platform, win, foreground>>
sessionHist == <<noops, topmost_log>>
sessionVars == <<appVars, overlayVars, desktopVars, sessionHist>>

vars == <<capVars, capHist, maskVars, mosaicVars, sessionVars, keeper_mid,
          locks, fr, stats, workers>>

\* ------------------------------------------------------------- queue.Queue
\* Queue.full() / the test inside Queue.put(): maxsize <= qsize.
QFull_OffByOne(q) == Len(q) > queue_capacity
QFull(q) == Len(q) >= queue_capacity

LastN(s, n) == IF Len(s) <= n THEN s ELSE SubSeq(s, Len(s) - n + 1, Len(s))

\* ----------------------------------------------------------- ScreenCapturer
\* _capture_screen(): the grabbed image, or None when the grab raised.
\* A successful grab yields the next frame of the screen.
CaptureScreenResults == {None} \cup (IF shots < MaxShots THEN {shots + 1} ELSE {})

\* The bookkeeping both except-branches of the capture thread share:
\* retry_count += 1; if retry_count > 5: retry_count = 0
RetryAfterFailure(rc) == IF rc + 1 > RetryLimit THEN 0 ELSE rc + 1

CapThreadAlive == cap_pc # "exited"

\* self.capture_thread = threading.Thread(...); self.capture_thread.start():
\* a thread the attribute named and that is alive runs on.
CapSpawn ==
    /\ stop_event' = FALSE
    /\ cap_pc' = "check"
    /\ cap_frame' = None
    /\ retry_count' = 0
    /\ stop_pushes' = 0
    /\ cap_replaced' = cap_replaced + (IF CapThreadAlive THEN 1 ELSE 0)

\* Variant of start_capture_thread without the is_alive() guard.
start_capture_thread_NoGuard ==
    /\ cap_caller = "idle"
    /\ CapSpawn
    /\ UNCHANGED <<frame_queue, prev_frame, shots, cap_caller, gf, everPushed,
                   pushLog, drained>>

\* start_capture_thread(): "if self.capture_thread is not None and
\* self.capture_thread.is_alive(): return"
start_capture_thread ==
    /\ cap_caller = "idle"
    /\ IF CapThreadAlive
          THEN UNCHANGED <<stop_event, cap_pc, cap_frame, retry_count,
                           stop_pushes, cap_replaced>>
          ELSE CapSpawn
    /\ UNCHANGED <<frame_queue, prev_frame, shots, cap_caller, gf, everPushed,
                   pushLog, drained>>

\* stop_capture_thread(): set the flag, then join(timeout=1.0).
stop_capture_thread ==
    /\ cap_caller = "idle"
    /\ IF CapThreadAlive
          THEN /\ stop_event' = TRUE
               /\ cap_caller' = "join"
          ELSE UNCHANGED <<stop_event, cap_caller>>
    /\ UNCHANGED <<frame_queue, cap_pc, cap_frame, retry_count, prev_frame,
                   shots, capHist>>

\* join(timeout=1.0) returns: the thread has exited, or the timeout elapsed.
stop_capture_join ==
    /\ cap_caller = "join"
    /\ cap_caller' = "idle"
    /\ UNCHANGED <<frame_queue, stop_event, cap_pc, cap_frame, retry_count,
                   prev_frame, shots, capHist>>

\* Variant of CapCheck that tests the flag only after a failed capture.
CapCheck_AfterFailureOnly ==
    /\ cap_pc = "check"
    /\ cap_pc' = IF stop_event /\ retry_count > 0 THEN "exited" ELSE "capture"
    /\ UNCHANGED <<frame_queue, stop_event, cap_frame, retry_count, prev_frame,
                   shots, cap_caller, capHist>>

\* while not self.stop_event.is_set():
CapCheck ==
    /\ cap_pc = "check"
    /\ cap_pc' = IF stop_event THEN "exited" ELSE "capture"
    /\ UNCHANGED <<frame_queue, stop_event, cap_frame, retry_count, prev_frame,
                   shots, cap_caller, capHist>>

\* Variant of CapCapture in which a failed grab ends the thread.
CapCapture_FailureFatal ==
    /\ cap_pc = "capture"
    /\ \E f \in CaptureScreenResults :
         /\ cap_frame' = f
         /\ IF f # None
               THEN /\ shots' = shots + 1
                    /\ cap_pc' = "full"
                    /\ UNCHANGED retry_count
               ELSE /\ retry_count' = RetryAfterFailure(retry_count)
                    /\ cap_pc' = "exited"
                    /\ UNCHANGED shots
    /\ UNCHANGED <<frame_queue, stop_event, prev_frame, cap_caller, capHist>>

\* frame = self._capture_screen(sct); the else-branch of "if frame is not None"
CapCapture ==
    /\ cap_pc = "capture"
    /\ \E f \in CaptureScreenResults :
         /\ cap_frame' = f
         /\ IF f # None
               THEN /\ shots' = shots + 1
                    /\ cap_pc' = "full"
                    /\ UNCHANGED retry_count
               ELSE /\ retry_count' = RetryAfterFailure(retry_count)
                    /\ cap_pc' = "check"
                    /\ UNCHANGED shots
    /\ UNCHANGED <<frame_queue, stop_event, prev_frame, cap_caller, capHist>>

\* if self.frame_queue.full():
CapFull ==
    /\ cap_pc = "full"
    /\ cap_pc' = IF QFull(frame_queue) THEN "evict" ELSE "put"
    /\ UNCHANGED <<frame_queue, stop_event, cap_frame, retry_count, prev_frame,
                   shots, cap_caller, capHist>>

\* Variant of CapEvict that discards the newest queued frame.
CapEvict_Newest ==
    /\ cap_pc = "evict"
    /\ IF frame_queue # <<>>
          THEN /\ frame_queue' = SubSeq(frame_queue, 1, Len(frame_queue) - 1)
               /\ cap_pc' = "put"
               /\ UNCHANGED <<cap_frame, retry_count>>
          ELSE /\ retry_count' = RetryAfterFailure(retry_count)
               /\ cap_frame' = None
               /\ cap_pc' = "check"
               /\ UNCHANGED frame_queue
    /\ UNCHANGED <<stop_event, prev_frame, shots, cap_caller, capHist>>

\* Variant of CapEvict with a blocking get(): it waits for a frame.
CapEvict_Blocking ==
    /\ cap_pc = "evict"
    /\ frame_queue # <<>>
    /\ frame_queue' = Tail(frame_queue)
    /\ cap_pc' = "put"
    /\ UNCHANGED <<cap_frame, retry_count>>
    /\ UNCHANGED <<stop_event, prev_frame, shots, cap_caller, capHist>>

\* self.frame_queue.get_nowait(): removes the oldest frame; on an empty queue
\* it raises queue.Empty, which only the outer "except Exception" catches.
CapEvict ==
    /\ cap_pc = "evict"
    /\ IF frame_queue # <<>>
          THEN /\ frame_queue' = Tail(frame_queue)
               /\ cap_pc' = "put"
               /\ UNCHANGED <<cap_frame, retry_count>>
          ELSE /\ retry_count' = RetryAfterFailure(retry_count)
               /\ cap_frame' = None
               /\ cap_pc' = "check"
               /\ UNCHANGED frame_queue
    /\ UNCHANGED <<stop_event, prev_frame, shots, cap_caller, capHist>>

\* self.frame_queue.put(frame, block=False); retry_count = 0
\* except queue.Full: pass
CapPut ==
    /\ cap_pc = "put"
    /\ IF QFull(frame_queue)
          THEN UNCHANGED <<frame_queue, retry_count, everPushed, pushLog, drained,
                           stop_pushes>>
          ELSE /\ frame_queue' = Append(frame_queue, cap_frame)
               /\ retry_count' = 0
               /\ everPushed' = TRUE
               /\ stop_pushes' = IF stop_event THEN stop_pushes + 1 ELSE stop_pushes
               /\ pushLog' = IF drained # <<>> THEN <<cap_frame>>
                                               ELSE Append(pushLog, cap_frame)
               /\ drained' = <<>>
    /\ cap_frame' = None
    /\ cap_pc' = "check"
    /\ UNCHANGED <<stop_event, prev_frame, shots, cap_caller, gf, cap_replaced>>

\* The newest frame get_frame() has returned so far (frames are numbered
\* in the order in which _capture_screen() took them).
NewestReturned ==
    IF gf.val > gf.newestBefore THEN gf.val ELSE gf.newestBefore

\* Variant of GetFramePop that forgets to store self.prev_frame.
GetFramePop_NoPrev ==
    /\ frame_queue # <<>>
    /\ frame_queue' = Tail(frame_queue)
    /\ gf' = [kind |-> "pop", val |-> Head(frame_queue), prevBefore |-> prev_frame,
              directCalled |-> FALSE, direct |-> None, pushedBefore |-> everPushed,
                         newestBefore |-> NewestReturned]
    /\ drained' = Append(drained, Head(frame_queue))
    /\ UNCHANGED <<stop_event, cap_pc, cap_frame, retry_count, shots, cap_caller,
                   everPushed, pushLog, prev_frame, stop_pushes, cap_replaced>>

\* get_frame(): frame_queue.get(block=True, timeout=0.1) returned a frame.
GetFramePop ==
    /\ frame_queue # <<>>
    /\ frame_queue' = Tail(frame_queue)
    /\ prev_frame' = Head(frame_queue)
    /\ gf' = [kind |-> "pop", val |-> Head(frame_queue), prevBefore |-> prev_frame,
              directCalled |-> FALSE, direct |-> None, pushedBefore |-> everPushed,
                         newestBefore |-> NewestReturned]
    /\ drained' = Append(drained, Head(frame_queue))
    /\ UNCHANGED <<stop_event, cap_pc, cap_frame, retry_count, shots, cap_caller,
                   everPushed, pushLog, stop_pushes, cap_replaced>>

\* get_frame(): the get timed out (queue.Empty): previous frame, else a
\* direct capture with a fresh mss context.
GetFrameTimeout ==
    /\ frame_queue = <<>>
    /\ IF prev_frame # None
          THEN /\ gf' = [kind |-> "timeout", val |-> prev_frame,
                         prevBefore |-> prev_frame, directCalled |-> FALSE, direct |-> None,
                         pushedBefore |-> everPushed,
                         newestBefore |-> NewestReturned]
               /\ UNCHANGED shots
          ELSE \E f \in CaptureScreenResults :
                 /\ gf' = [kind |-> "timeout", val |-> f, prevBefore |-> prev_frame,
                           directCalled |-> TRUE, direct |-> f, pushedBefore |-> everPushed,
                           newestBefore |-> NewestReturned]
                 /\ shots' = IF f # None THEN shots + 1 ELSE shots
    /\ UNCHANGED <<frame_queue, stop_event, cap_pc, cap_frame, retry_count,
                   prev_frame, cap_caller, everPushed, pushLog, drained,
                   stop_pushes, cap_replaced>>

get_frame == GetFramePop \/ GetFrameTimeout

capture_thread_func == CapCheck \/ CapCapture \/ CapFull \/ CapEvict \/ CapPut


\* ------------------------------------------------------------------ images
\* An image (numpy array) is a record [h, w, px]: img.shape[0], img.shape[1]
\* and the pixel values, a function from <<row, column>> to a value.
Coords(h, w) == (0 .. h - 1) \X (0 .. w - 1)

Min(a, b) == IF a <= b THEN a ELSE b
Max(a, b) == IF a >= b THEN a ELSE b

\* The indices a Python slice a[start:stop] selects on an axis of length n
\* (negative bounds count from the end, all bounds are clamped).
PySliceBound(i, n) == IF i < 0 THEN (IF i + n < 0 THEN 0 ELSE i + n)
                               ELSE (IF i > n THEN n ELSE i)
PySlice(start, stop, n) ==
    {i \in 0 .. n - 1 : PySliceBound(start, n) <= i /\ i < PySliceBound(stop, n)}

\* ------------------------------------------- _capture_screen: exclusion mask
MaskW == MaskSize
MaskH == MaskSize
Pixels == Coords(MaskH, MaskW)

\* The grabbed screen: no pixel of it is 0, so a blanked pixel is visible.
RawImage == [h |-> MaskH, w |-> MaskW,
             px |-> [p \in Pixels |-> 1 + p[1] * MaskW + p[2]]]

\* MaskOne as the exclusion-masking contract describes it: a region's origin
\* is clipped to the frame instead of the region being skipped.
MaskOne_ClipOrigin(img, r) ==
    LET x == r[1]  y == r[2]  w == r[3]  h == r[4]
        end_x == Min(x + w, img.w)
        end_y == Min(y + h, img.h)
    IN  IF x < img.w /\ y < img.h /\ end_x > 0 /\ end_y > 0
          THEN [img EXCEPT !.px = [p \in DOMAIN img.px |->
                  IF p[1] \in PySlice(Max(y, 0), end_y, img.h)
                     /\ p[2] \in PySlice(Max(x, 0), end_x, img.w)
                    THEN 0 ELSE img.px[p]]]
          ELSE img

\* One pass of the loop body "for x, y, w, h in self.exclude_regions":
\* the validity test, end_x/end_y, and img[y:end_y, x:end_x] = 0.
MaskOne(img, r) ==
    LET x == r[1]  y == r[2]  w == r[3]  h == r[4]
        end_x == Min(x + w, img.w)
        end_y == Min(y + h, img.h)
    IN  IF x >= 0 /\ y >= 0 /\ x < img.w /\ y < img.h
          THEN [img EXCEPT !.px = [p \in DOMAIN img.px |->
                  IF p[1] \in PySlice(y, end_y, img.h) /\ p[2] \in PySlice(x, end_x, img.w)
                    THEN 0 ELSE img.px[p]]]
          ELSE img

RECURSIVE ApplyExclusions(_, _)
ApplyExclusions(img, regions) ==
    IF regions = <<>> THEN img
    ELSE ApplyExclusions(MaskOne(img, Head(regions)), Tail(regions))

\* The regions a caller may configure: origins from one pixel outside the
\* frame on every side, sizes from empty to the whole frame.
RegionDomain ==
    (-1 .. MaskW) \X (-1 .. MaskH) \X (0 .. MaskSize) \X (0 .. MaskSize)

add_exclude_region ==
    /\ Len(exclude_regions) < MaxRegions
    /\ \E r \in RegionDomain : exclude_regions' = Append(exclude_regions, r)
    /\ UNCHANGED <<mk_img, mk_cfg>>

clear_exclude_regions ==
    /\ exclude_regions # <<>>
    /\ exclude_regions' = <<>>
    /\ UNCHANGED <<mk_img, mk_cfg>>

\* _capture_screen(): grab, then mask with the regions configured now.
capture_screen ==
    /\ mk_img' = ApplyExclusions(RawImage, exclude_regions)
    /\ mk_cfg' = exclude_regions
    /\ UNCHANGED exclude_regions

InitMask ==
    /\ exclude_regions = <<>>
    /\ mk_img = RawImage
    /\ mk_cfg = <<>>


\* ------------------------------------------------------------- cv2.resize
\* Python's floor division a // b (b # 0).
PyFloorDiv(a, b) == IF b > 0 THEN a \div b ELSE (-a) \div (-b)

\* cv2.resize(src, (dw, dh), interpolation=cv2.INTER_NEAREST):
\* dst[y, x] = src[floor(y * sh / dh), floor(x * sw / dw)], clamped.
ResizeNearest(src, dw, dh) ==
    [h |-> dh, w |-> dw,
     px |-> [p \in Coords(dh, dw) |->
               src.px[<<Min((p[1] * src.h) \div dh, src.h - 1),
                        Min((p[2] * src.w) \div dw, src.w - 1)>>]]]

\* One axis of bilinear sampling: destination index i of n maps to source
\* coordinate (i + 0.5) * sn / n - 0.5; the result is <<i0, i1, f, d>>, the
\* two source indices and the weight f/d of the second.
LinearTap(i, n, sn) ==
    LET d   == 2 * n
        num == (2 * i + 1) * sn - n
    IN  IF num < 0 THEN <<0, 0, 0, d>>
        ELSE IF num \div d >= sn - 1 THEN <<sn - 1, sn - 1, 0, d>>
        ELSE <<num \div d, num \div d + 1, num % d, d>>

\* cv2.resize(src, (dw, dh), interpolation=cv2.INTER_LINEAR), rounding the
\* weighted mean of the four neighbours to the nearest integer.
ResizeLinear(src, dw, dh) ==
    [h |-> dh, w |-> dw,
     px |-> [p \in Coords(dh, dw) |->
        LET ty == LinearTap(p[1], dh, src.h)
            tx == LinearTap(p[2], dw, src.w)
            D  == ty[4] * tx[4]
            S  == (ty[4] - ty[3]) * (tx[4] - tx[3]) * src.px[<<ty[1], tx[1]>>]
                + (ty[4] - ty[3]) * tx[3]           * src.px[<<ty[1], tx[2]>>]
                + ty[3]           * (tx[4] - tx[3]) * src.px[<<ty[2], tx[1]>>]
                + ty[3]           * tx[3]           * src.px[<<ty[2], tx[2]>>]
        IN  (2 * S + D) \div (2 * D)]]

\* ---------------------------------------------------------- MosaicProcessor
set_strength(s) == Max(StrengthLow, Min(StrengthHigh, s))

\* The size of the downscaled image: max(1, dim // strength).
SmallDim(dim, s) == Max(1, PyFloorDiv(dim, s))

\* small = cv2.resize(image, (small_w, small_h), interpolation=cv2.INTER_LINEAR)
MosaicSmall(image, s) ==
    ResizeLinear(image, SmallDim(image.w, s), SmallDim(image.h, s))

\* Variant of apply_mosaic that returns the downscaled image.
apply_mosaic_NoUpscale(image, s) ==
    IF image.h * image.w = 0 THEN image
    ELSE IF s = 0 THEN image
    ELSE MosaicSmall(image, s)

\* apply_mosaic(image, strength): an empty image and the except-branch
\* (strength 0: ZeroDivisionError) return the image itself.
apply_mosaic(image, s) ==
    IF image.h * image.w = 0 THEN image
    ELSE IF s = 0 THEN image
    ELSE ResizeNearest(MosaicSmall(image, s), image.w, image.h)

\* The record of one apply_mosaic call, as its caller sees it.
MosaicCall(image, s) ==
    [in_h |-> image.h, in_w |-> image.w, strength |-> s,
     small_h |-> IF s = 0 THEN 0 ELSE MosaicSmall(image, s).h,
     small_w |-> IF s = 0 THEN 0 ELSE MosaicSmall(image, s).w,
     out_h |-> apply_mosaic(image, s).h, out_w |-> apply_mosaic(image, s).w]

\* region = processed_frame[y1:y2, x1:x2]
SliceStart(S) == IF S = {} THEN 0 ELSE CHOOSE i \in S : \A j \in S : i <= j
Crop(img, bbox) ==
    LET rows == PySlice(bbox[2], bbox[4], img.h)
        cols == PySlice(bbox[1], bbox[3], img.w)
        r0 == SliceStart(rows)
        c0 == SliceStart(cols)
    IN  [h |-> Cardinality(rows), w |-> Cardinality(cols),
         px |-> [p \in Coords(Cardinality(rows), Cardinality(cols)) |->
                   img.px[<<r0 + p[1], c0 + p[2]>>]]]

\* processed_frame[y1:y2, x1:x2] = mosaic_region; numpy raises ValueError
\* when the shapes differ.
PasteFits(img, bbox, region) ==
    /\ region.h = Cardinality(PySlice(bbox[2], bbox[4], img.h))
    /\ region.w = Cardinality(PySlice(bbox[1], bbox[3], img.w))
Paste(img, bbox, region) ==
    LET rows == PySlice(bbox[2], bbox[4], img.h)
        cols == PySlice(bbox[1], bbox[3], img.w)
        r0 == SliceStart(rows)
        c0 == SliceStart(cols)
    IN  [img EXCEPT !.px = [p \in DOMAIN img.px |->
            IF p[1] \in rows /\ p[2] \in cols
              THEN region.px[<<p[1] - r0, p[2] - c0>>]
              ELSE img.px[p]]]

\* Variant of MosaicOne without the test "class_name in targets".
MosaicOne_AnyClass(acc, det, tgts, s) ==
    IF acc.raised THEN acc
    ELSE LET region == Crop(acc.frame, det.bbox)
         IN  IF region.h * region.w > 0
               THEN IF PasteFits(acc.frame, det.bbox, apply_mosaic(region, s))
                      THEN [acc EXCEPT !.frame = Paste(acc.frame, det.bbox,
                                                       apply_mosaic(region, s))]
                      ELSE [acc EXCEPT !.raised = TRUE]
               ELSE acc

\* The body of "for detection in detections" (processing_loop and
\* detect_objects_detailed): mosaic the bounding box of a target detection.
MosaicOne(acc, det, tgts, s) ==
    IF acc.raised \/ det.class_name \notin tgts THEN acc
    ELSE LET region == Crop(acc.frame, det.bbox)
         IN  IF region.h * region.w > 0
               THEN IF PasteFits(acc.frame, det.bbox, apply_mosaic(region, s))
                      THEN [acc EXCEPT !.frame = Paste(acc.frame, det.bbox,
                                                       apply_mosaic(region, s))]
                      ELSE [acc EXCEPT !.raised = TRUE]
               ELSE acc

RECURSIVE MosaicAll(_, _, _, _)
MosaicAll(acc, dets, tgts, s) ==
    IF dets = <<>> THEN acc
    ELSE MosaicAll(MosaicOne(acc, Head(dets), tgts, s), Tail(dets), tgts, s)

\* The apply_mosaic calls MosaicAll makes, in order.
RECURSIVE MosaicCalls(_, _, _, _)
MosaicCalls(acc, dets, tgts, s) ==
    IF dets = <<>> \/ acc.raised THEN <<>>
    ELSE LET region == Crop(acc.frame, Head(dets).bbox)
             here == IF Head(dets).class_name \in tgts /\ region.h * region.w > 0
                       THEN <<MosaicCall(region, s)>> ELSE <<>>
         IN  here \o MosaicCalls(MosaicOne(acc, Head(dets), tgts, s), Tail(dets), tgts, s)

\* ---- one frame through the pipeline
MosaicW == MosaicSize + 1
MosaicH == MosaicSize
Classes == {"face", "hand"}

\* The frames fed in: a gradient whose neighbouring pixels all differ.
InputFrame == [h |-> MosaicH, w |-> MosaicW,
               px |-> [p \in Coords(MosaicH, MosaicW) |-> 10 * (p[1] * MosaicW + p[2]) + 4]]

\* What the model can report for one box: any class, corners inside the
\* frame in any order, and a confidence just below or at the threshold.
DetectionDomain ==
    {[class_name |-> c, bbox |-> <<x1, y1, x2, y2>>, confidence |-> cf] :
        c \in Classes, x1 \in 0 .. MosaicW, y1 \in 0 .. MosaicH,
        x2 \in 0 .. MosaicW, y2 \in 0 .. MosaicH,
        cf \in {conf_threshold - 1, conf_threshold}}

\* "if x2 > x1 and y2 > y1 and confidence >= self.conf_threshold" (line 83)
ValidDetection(d) ==
    /\ d.bbox[3] > d.bbox[1]
    /\ d.bbox[4] > d.bbox[2]
    /\ d.confidence >= conf_threshold

\* How a call of detect_objects() can go: the model is None; the inference
\* or the loop over its boxes raises; or neither.
DetectOutcomes == {"ok", "no_model", "raised"}

\* What detect_objects() returns, 'dets' being the detections appended so
\* far: "return []" when the model is None and in the except clause.
DetectResult_Partial(outcome, dets) == dets
DetectResult(outcome, dets) == IF outcome = "ok" THEN dets ELSE <<>>

\* start_censoring: set_targets(selected_targets), set_strength(strength_var)
\* with at least one target selected.
configure ==
    /\ mz_pc = "config"
    /\ \E t \in (SUBSET Classes) \ {{}}, s \in 0 .. MaxStrength :
         /\ targets' = t
         /\ strength_var' = s
         /\ strength' = set_strength(s)
    /\ mz_pc' = "detect"
    /\ UNCHANGED <<mz_in, mz_dets, mz_out, mz_calls, mz_detect>>

\* detect_objects(frame) appends one more detection that passes its test.
detect_objects_add ==
    /\ mz_pc = "detect"
    /\ Len(mz_dets) < MaxDetections
    /\ \E d \in DetectionDomain :
         /\ ValidDetection(d)
         /\ mz_dets' = Append(mz_dets, d)
    /\ UNCHANGED <<targets, strength, strength_var, mz_pc, mz_in, mz_out, mz_calls,
                   mz_detect>>

\* detect_objects(frame) returns.
detect_objects_return ==
    /\ mz_pc = "detect"
    /\ mz_pc' = "apply"
    /\ \E outcome \in DetectOutcomes :
          /\ outcome = "no_model" => mz_dets = <<>>
          /\ mz_detect' = outcome
          /\ mz_dets' = DetectResult(outcome, mz_dets)
    /\ UNCHANGED <<targets, strength, strength_var, mz_in, mz_out, mz_calls>>

\* processing_loop lines 580-615: copy, mosaic with strength_var.get(),
\* overlay.update_frame(processed_frame).
processing_loop_mosaic ==
    /\ mz_pc = "apply"
    /\ mz_out' = MosaicAll([frame |-> mz_in, raised |-> FALSE], mz_dets, targets,
                           strength_var)
    /\ mz_calls' = MosaicCalls([frame |-> mz_in, raised |-> FALSE], mz_dets, targets,
                               strength_var)
    /\ mz_pc' = "shown"
    /\ UNCHANGED <<targets, strength, strength_var, mz_in, mz_dets, mz_detect>>

\* detect_objects_detailed: the same loop with self.strength.
detect_objects_detailed ==
    /\ mz_pc = "apply"
    /\ mz_out' = MosaicAll([frame |-> mz_in, raised |-> FALSE], mz_dets, targets,
                           strength)
    /\ mz_calls' = MosaicCalls([frame |-> mz_in, raised |-> FALSE], mz_dets, targets,
                               strength)
    /\ mz_pc' = "shown"
    /\ UNCHANGED <<targets, strength, strength_var, mz_in, mz_dets, mz_detect>>

InitMosaic ==
    /\ targets = Classes
    /\ strength = set_strength(MaxStrength)
    /\ strength_var = MaxStrength
    /\ mz_pc = "config"
    /\ mz_in = InputFrame
    /\ mz_dets = <<>>
    /\ mz_out = [frame |-> InputFrame, raised |-> FALSE]
    /\ mz_calls = <<>>
    /\ mz_detect = "pending"

\* ------------------------------------------------------------------ threads
\* A thread attribute (self.process_thread, overlay.display_thread,
\* overlay.topmost_thread) with the threads it referred to before: 'cur'
\* tells whether the thread the attribute refers to is running ("dead" when
\* there is none or it has returned), 'replaced' counts the threads the
\* attribute referred to earlier that still run.
NoThread == [cur |-> "dead", replaced |-> 0]

\* Thread.is_alive() of the thread the attribute refers to.
Alive(th) == th.cur = "alive"

\* attribute = threading.Thread(...); attribute.start()
Spawn(th) ==
    [cur |-> "alive", replaced |-> th.replaced + (IF Alive(th) THEN 1 ELSE 0)]

\* The running threads of 'th': "cur" and/or "z" (any replaced one).
Threads(th) ==
    (IF Alive(th) THEN {"cur"} ELSE {})
        \cup (IF th.replaced > 0 THEN {"z"} ELSE {})

\* Thread t of 'th' returns.
Exit(th, t) ==
    IF t = "cur"
       THEN [th EXCEPT !.cur = "dead"]
       ELSE [th EXCEPT !.replaced = @ - 1]

\* ------------------------------------------------------------- the desktop
\* HAS_WIN32: the win32 modules were imported.
HAS_WIN32 == platform # "none"

\* The pygame window: whether it exists, its WS_EX_LAYERED|WS_EX_TRANSPARENT
\* style, its display affinity WDA_EXCLUDEFROMCAPTURE, whether it is in the
\* topmost band, and whether it is above every other window.
NoWindow == [alive |-> FALSE, click |-> FALSE, affinity |-> FALSE,
             band |-> FALSE, z |-> "below"]

\* pygame.display.set_mode(): a new window, shown on top and activated.
NewWindow == [alive |-> TRUE, click |-> FALSE, affinity |-> FALSE,
              band |-> FALSE, z |-> "top"]

\* The results of the operating-system calls of one show(): whether
\* pygame.init()/set_mode(), SetWindowDisplayAffinity, SetWindowLong,
\* SetWindowPos, the SetWindowLong of the retry and SetWindowsHookExW succeed.
OsOutcomes ==
    IF platform = "degraded"
       THEN [init : BOOLEAN, aff : BOOLEAN, click : BOOLEAN, pos : BOOLEAN,
             retry : BOOLEAN, hook : BOOLEAN]
       ELSE [init : BOOLEAN, aff : {HAS_WIN32}, click : {HAS_WIN32},
             pos : {HAS_WIN32}, retry : {HAS_WIN32}, hook : {HAS_WIN32}]

\* SetWindowPos(self.hwnd, HWND_TOPMOST, ...) followed by HWND_TOP, as both
\* _instant_force_topmost and _force_to_topmost issue them; errors are
\* swallowed.  The call fails on a handle whose window is gone.
ForceTopmost(w, h) ==
    IF HAS_WIN32 /\ h = "live" /\ w.alive
       THEN [w EXCEPT !.band = TRUE, !.z = "top"]
       ELSE w

\* test_click_through(): GetWindowLong fails on a destroyed window.
test_click_through == HAS_WIN32 /\ hwnd = "live" /\ win.alive /\ win.click

\* test_capture_protection()
test_capture_protection ==
    HAS_WIN32 /\ hwnd = "live" /\ win.alive /\ win.affinity

\* is_window_visible()
is_window_visible == is_visible /\ ov_is_running

\* ---------------------------------------------------------- the main thread
\* The Tk main thread runs one handler at a time.  A handler is executed as
\* a function on the record of the variables the main thread writes; it
\* runs until it blocks in a join(timeout=1.0) (pc names the join) or the
\* handler returns (pc = "idle").  'stack' holds the continuations of the
\* calls in progress.
MainState ==
    [pc |-> main_pc, stack |-> main_stack,
     is_running |-> is_running, start_button |-> start_button,
     stop_button |-> stop_button, process_thread |-> process_thread,
     sessions |-> sessions,
     is_visible |-> is_visible, ov_is_running |-> ov_is_running,
     force_topmost |-> force_topmost, hook_installed |-> hook_installed,
     topmost_stop_event |-> topmost_stop_event, hwnd |-> hwnd,
     display_thread |-> display_thread, topmost_thread |-> topmost_thread,
     win |-> win, foreground |-> foreground,
     stop_event |-> stop_event, noops |-> noops, topmost_log |-> topmost_log]

RECURSIVE Resume(_, _)

Return(m) ==
    IF m.stack = <<>>
       THEN [m EXCEPT !.pc = "idle"]
       ELSE Resume(Head(m.stack), [m EXCEPT !.stack = Tail(@)])

Call(m, continuation) == [m EXCEPT !.stack = <<continuation>> \o @]

Block(m, join) == [m EXCEPT !.pc = join]

\* hide(), last part: pygame.display.quit(); pygame.quit().  The window is
\* destroyed; self.hwnd keeps the handle of the destroyed window.
hide_quit_KeepWindow(m) == Return(m)
hide_quit(m) ==
    Return([m EXCEPT !.win = NoWindow,
                     !.hwnd = IF @ = "live" THEN "stale" ELSE @,
                     !.foreground = "other",
                     !.topmost_log = "none"])

\* hide(): if self.display_thread and self.display_thread.is_alive(): join
hide_join_display(m) ==
    IF Alive(m.display_thread)
       THEN Block(m, "hide_display_join")
       ELSE hide_quit(m)

\* hide(), first part, with uninstall_activation_hook() and
\* stop_topmost_keeper().
hide(m) ==
    IF ~m.is_visible
       THEN Return([m EXCEPT !.noops = @ \cup {"hide"}])
       ELSE LET m1 == [m EXCEPT !.is_visible = FALSE,
                                !.ov_is_running = FALSE,
                                !.force_topmost = FALSE,
                                !.hook_installed = FALSE]
            IN  IF Alive(m1.topmost_thread)
                   THEN Block([m1 EXCEPT !.topmost_stop_event = TRUE],
                              "hide_topmost_join")
                   ELSE hide_join_display(m1)

\* stop_censoring(), last part: the GUI update.
stop_censoring_finish(m) ==
    Return([m EXCEPT !.start_button = "normal", !.stop_button = "disabled"])

\* stop_censoring(): if self.process_thread and ...is_alive(): join
stop_censoring_join(m) ==
    IF Alive(m.process_thread)
       THEN Block(m, "stop_censoring_join")
       ELSE stop_censoring_finish(m)

\* stop_censoring(): "if not self.is_running: return"
StopGuard_Never(m) == FALSE
StopGuard(m) == ~m.is_running

stop_censoring(m) ==
    IF StopGuard(m)
       THEN Return([m EXCEPT !.noops = @ \cup {"stop_censoring"}])
       ELSE hide(Call([m EXCEPT !.is_running = FALSE], "after_hide"))

\* capturer.stop_capture_thread() as cleanup() calls it.
cleanup_stop_capture(m) ==
    IF CapThreadAlive
       THEN Block([m EXCEPT !.stop_event = TRUE], "cleanup_capture_join")
       ELSE Return([m EXCEPT !.noops = @ \cup {"stop_capture_thread"}])

cleanup_hide(m) == hide(Call(m, "cleanup_stop_capture"))

\* cleanup()
cleanup(m) ==
    LET m1 == [m EXCEPT !.is_running = FALSE]
    IN  IF Alive(m1.process_thread)
           THEN Block(m1, "cleanup_join")
           ELSE cleanup_hide(m1)

\* run(): mainloop() has returned; finally: self.cleanup()
run_finally(m) == cleanup(Call(m, "exit"))

\* on_closing(): self.cleanup(); self.root.destroy()
on_closing_cleanup(m) == cleanup(Call(m, "run_finally"))

\* on_closing()
on_closing(m) ==
    IF m.is_running
       THEN stop_censoring(Call(m, "on_closing_cleanup"))
       ELSE on_closing_cleanup(m)

\* Where the main thread goes on after a call returns or a join ends.
Resume(label, m) ==
    CASE label = "after_hide" -> stop_censoring_join(m)
      [] label = "stop_censoring_join" -> stop_censoring_finish(m)
      [] label = "hide_topmost_join" -> hide_join_display(m)
      [] label = "hide_display_join" -> hide_quit(m)
      [] label = "cleanup_join" -> cleanup_hide(m)
      [] label = "cleanup_stop_capture" -> cleanup_stop_capture(m)
      [] label = "cleanup_capture_join" -> Return(m)
      [] label = "on_closing_cleanup" -> on_closing_cleanup(m)
      [] label = "run_finally" -> run_finally(m)
      [] label = "exit" -> [m EXCEPT !.pc = "closed"]

JoinLabels == {"stop_censoring_join", "hide_topmost_join", "hide_display_join",
               "cleanup_join", "cleanup_capture_join"}

\* set_window_click_through_and_capture_protected(), with the outcomes o of
\* its operating-system calls.  SetWindowPos is outside the inner try
\* blocks: when it raises, the outer except ends the method.
set_window_AbortOnProtectionFailure(m, o) ==
    LET m1 == [m EXCEPT !.hwnd = "live",
                        !.win.affinity = o.aff,
                        !.win.click = o.click]
        m2 == [m1 EXCEPT !.win.band = TRUE, !.win.z = "top"]
        \* test_click_through_immediately() failed: _retry_click_through_setup
        m3 == IF m2.win.click THEN m2 ELSE [m2 EXCEPT !.win.click = o.retry]
        \* self.force_topmost = True; install_activation_hook();
        \* start_topmost_keeper()
        m4 == [m3 EXCEPT !.force_topmost = TRUE,
                         !.hook_installed = @ \/ o.hook,
                         !.topmost_stop_event = FALSE,
                         !.topmost_thread = Spawn(@)]
    IN  IF o.pos /\ o.aff /\ o.click THEN m4 ELSE m1
\* Variant that repeats the retry until the verification succeeds.
set_window_RetryUntilVerified(m, o) ==
    LET m1 == [m EXCEPT !.hwnd = "live",
                        !.win.affinity = o.aff,
                        !.win.click = o.click]
        m2 == [m1 EXCEPT !.win.band = TRUE, !.win.z = "top"]
        \* test_click_through_immediately() failed: _retry_click_through_setup
        m3 == IF m2.win.click THEN m2 ELSE [m2 EXCEPT !.win.click = TRUE]
        \* self.force_topmost = True; install_activation_hook();
        \* start_topmost_keeper()
        m4 == [m3 EXCEPT !.force_topmost = TRUE,
                         !.hook_installed = @ \/ o.hook,
                         !.topmost_stop_event = FALSE,
                         !.topmost_thread = Spawn(@)]
    IN  IF o.pos THEN m4 ELSE m1

set_window_click_through_and_capture_protected(m, o) ==
    LET m1 == [m EXCEPT !.hwnd = "live",
                        !.win.affinity = o.aff,
                        !.win.click = o.click]
        m2 == [m1 EXCEPT !.win.band = TRUE, !.win.z = "top"]
        \* test_click_through_immediately() failed: _retry_click_through_setup
        m3 == IF m2.win.click THEN m2 ELSE [m2 EXCEPT !.win.click = o.retry]
        \* self.force_topmost = True; install_activation_hook();
        \* start_topmost_keeper()
        m4 == [m3 EXCEPT !.force_topmost = TRUE,
                         !.hook_installed = @ \/ o.hook,
                         !.topmost_stop_event = FALSE,
                         !.topmost_thread = Spawn(@)]
    IN  IF o.pos THEN m4 ELSE m1

\* init_pygame(): [ok, m]
init_pygame(m, o) ==
    IF ~o.init
       THEN [ok |-> FALSE, m |-> m]
       ELSE LET m1 == [m EXCEPT !.win = NewWindow,
                                !.foreground = "overlay",
                                           !.topmost_log = "none"]
            IN  [ok |-> TRUE,
                 m |-> IF HAS_WIN32
                          THEN set_window_click_through_and_capture_protected(m1, o)
                          ELSE m1]

\* show() starting its display thread whether or not init_pygame()
\* succeeded.
show_ThreadBeforeInit(m, o) ==
    IF m.is_visible
       THEN [ok |-> FALSE, m |-> m]
       ELSE LET r == init_pygame(m, o)
            IN  [ok |-> r.ok,
                 m |-> [r.m EXCEPT !.is_visible = TRUE,
                                   !.ov_is_running = TRUE,
                                   !.display_thread = Spawn(@)]]

\* show(): [ok, m]; a bare "return" yields None, which the caller's
\* "if not self.overlay.show()" takes as failure.
show(m, o) ==
    IF m.is_visible
       THEN [ok |-> FALSE, m |-> m]
       ELSE LET r == init_pygame(m, o)
            IN  IF ~r.ok
                   THEN r
                   ELSE [ok |-> TRUE,
                         m |-> [r.m EXCEPT !.is_visible = TRUE,
                                           !.ov_is_running = TRUE,
                                           !.display_thread = Spawn(@)]]

\* start_censoring(), "if not self.overlay.show():": log, stop_censoring(),
\* return.
start_failure_NoStop(m) == Return(m)
start_failure(m) == stop_censoring(m)

\* start_censoring(), the user having confirmed the dialog.
start_censoring_body(m, o) ==
    IF m.is_running
       THEN Return(m)
       ELSE LET m1 == [m EXCEPT !.is_running = TRUE,
                                !.sessions = @ + 1,
                                !.start_button = "disabled",
                                !.stop_button = "normal"]
                r == show(m1, o)
            IN  IF ~r.ok
                   THEN start_failure(r.m)
                   ELSE Return([r.m EXCEPT !.process_thread = Spawn(@)])

\* The main thread's step takes the program from MainState to m.
Commit(m) ==
    /\ main_pc' = m.pc
    /\ main_stack' = m.stack
    /\ is_running' = m.is_running
    /\ start_button' = m.start_button
    /\ stop_button' = m.stop_button
    /\ process_thread' = m.process_thread
    /\ sessions' = m.sessions
    /\ is_visible' = m.is_visible
    /\ ov_is_running' = m.ov_is_running
    /\ force_topmost' = m.force_topmost
    /\ hook_installed' = m.hook_installed
    /\ topmost_stop_event' = m.topmost_stop_event
    /\ hwnd' = m.hwnd
    /\ display_thread' = m.display_thread
    /\ topmost_thread' = m.topmost_thread
    /\ win' = m.win
    /\ foreground' = m.foreground
    /\ stop_event' = m.stop_event
    /\ noops' = m.noops
    /\ topmost_log' = m.topmost_log
    /\ UNCHANGED <<current_frame, platform, cap_pc>>

\* At most MaxZombies replaced threads run at any time.
WithinZombieBound(m) ==
    m.process_thread.replaced + m.display_thread.replaced
        + m.topmost_thread.replaced <= MaxZombies

\* The user presses the start button; o are the outcomes of the
\* operating-system calls made by show().
start_censoring_with(o) ==
    /\ main_pc = "idle"
    /\ start_button = "normal"
    /\ sessions < MaxSessions
    /\ LET m == start_censoring_body(MainState, o)
       IN  WithinZombieBound(m) /\ Commit(m)
    /\ UNCHANGED after_q

start_censoring == \E o \in OsOutcomes : start_censoring_with(o)

\* The user presses the stop button, or stop_censoring() is called.
stop_censoring_call ==
    /\ main_pc = "idle"
    /\ Commit(stop_censoring(MainState))
    /\ UNCHANGED after_q

\* Tk runs a callback scheduled with root.after(0, self.stop_censoring).
after_callback ==
    /\ main_pc = "idle"
    /\ after_q > 0
    /\ after_q' = after_q - 1
    /\ Commit(stop_censoring(MainState))

\* WM_DELETE_WINDOW
on_closing_call ==
    /\ main_pc = "idle"
    /\ Commit(on_closing(MainState))
    /\ UNCHANGED after_q

\* KeyboardInterrupt ends mainloop(): run() goes to its finally.
keyboard_interrupt ==
    /\ main_pc = "idle"
    /\ Commit(run_finally(MainState))
    /\ UNCHANGED after_q

\* The thread a join of the main thread waits for is still running.
JoinedThreadAlive(join) ==
    CASE join = "hide_topmost_join" -> Alive(topmost_thread)
      [] join = "hide_display_join" -> Alive(display_thread)
      [] join \in {"stop_censoring_join", "cleanup_join"} -> Alive(process_thread)
      [] join = "cleanup_capture_join" -> CapThreadAlive

\* Every join of the stop paths is join(timeout=1.0): the timeout elapses
\* whatever the thread does.
JoinTimeout_None == FALSE
JoinTimeout == TRUE

\* A join(timeout=1.0) of the main thread returns: the thread has exited or
\* the timeout has elapsed.
join_return ==
    /\ main_pc \in JoinLabels
    /\ ~JoinedThreadAlive(main_pc) \/ JoinTimeout
    /\ Commit(Resume(main_pc, MainState))
    /\ UNCHANGED after_q

\* ------------------------------------------------------- the worker threads
\* One step of a loop thread is one pass through its loop: the loop test
\* and, if it holds, the loop body.
MainUnchanged ==
    UNCHANGED <<main_pc, main_stack, start_button, stop_button, sessions,
                stop_event, cap_pc, platform, noops>>

\* processing_loop(), the overlay-closed test at the end of an iteration:
\* "if not self.overlay.is_window_visible(): self.is_running = False; break"
\* and the finally clause, self.root.after(0, self.stop_censoring).
ProcessingClosed(t) ==
    /\ process_thread' = Exit(process_thread, t)
    /\ after_q' = after_q + 1
    /\ is_running' = FALSE

\* processing_loop(): "while self.is_running:" and one iteration, in which
\* get_frame() returns None ("none"), or a frame that is processed and
\* handed to update_frame() ("frame"), or a step raises ("raise": the try
\* encloses the whole loop, so the loop ends).  Leaving the loop runs the
\* finally clause.
processing_loop ==
    /\ main_pc # "closed"
    /\ \E t \in Threads(process_thread) :
          IF ~is_running
             THEN /\ process_thread' = Exit(process_thread, t)
                  /\ after_q' = after_q + 1
                  /\ UNCHANGED <<is_running, current_frame>>
             ELSE \E outcome \in {"none", "frame", "raise"} :
                     CASE outcome = "none" ->
                             UNCHANGED <<process_thread, after_q, is_running,
                                         current_frame>>
                       [] outcome = "raise" ->
                             /\ process_thread' = Exit(process_thread, t)
                             /\ after_q' = after_q + 1
                             /\ UNCHANGED <<is_running, current_frame>>
                       [] outcome = "frame" ->
                             /\ current_frame' = sessions
                             /\ IF ~is_window_visible
                                   THEN ProcessingClosed(t)
                                   ELSE UNCHANGED <<process_thread, after_q,
                                                    is_running>>
    /\ MainUnchanged
    /\ UNCHANGED <<is_visible, ov_is_running, force_topmost, hook_installed,
                   topmost_stop_event, hwnd, display_thread, topmost_thread,
                   win, foreground, topmost_log>>

\* display_loop(): "while self.is_running:" and one iteration: the event
\* loop, where a QUIT event or the ESC key clears is_running, then the
\* frame is drawn.
display_loop ==
    /\ main_pc # "closed"
    /\ \E t \in Threads(display_thread) :
          IF ~ov_is_running
             THEN /\ display_thread' = Exit(display_thread, t)
                  /\ UNCHANGED ov_is_running
             ELSE \E close \in BOOLEAN :
                     /\ ov_is_running' = ~close
                     /\ UNCHANGED display_thread
    /\ MainUnchanged
    /\ UNCHANGED <<is_running, process_thread, after_q, is_visible,
                   force_topmost, hook_installed, topmost_stop_event, hwnd,
                   topmost_thread, current_frame, win, foreground,
                   topmost_log>>

\* The outcomes of a SetWindowPos pair on window w through handle h.
ForceTopmostResults(w, h) ==
    {ForceTopmost(w, h)} \cup (IF platform = "degraded" THEN {w} ELSE {})

\* _topmost_keeper_loop(), the test of one cycle:
\* "if foreground_hwnd != self.hwnd"
KeeperMustForce_WhenForeground == foreground = "overlay" /\ hwnd = "live"
KeeperMustForce == ~(foreground = "overlay" /\ hwnd = "live")

\* win32gui.BringWindowToTop(self.hwnd), which _force_to_topmost() calls
\* between its two SetWindowPos calls: it activates a top-level window, so
\* the foreground window fg may become the overlay; whether it does is the
\* window manager's decision.  Errors are swallowed.
BringWindowToTop(fg, w, h) ==
    IF HAS_WIN32 /\ h = "live" /\ w.alive THEN {fg, "overlay"} ELSE {fg}

\* _topmost_keeper_loop(): "while not self.topmost_stop_event.is_set():"
\* and one cycle.
topmost_keeper_loop ==
    /\ main_pc # "closed"
    /\ \E t \in Threads(topmost_thread) :
          IF topmost_stop_event
             THEN /\ topmost_thread' = Exit(topmost_thread, t)
                  /\ UNCHANGED <<win, topmost_log, foreground>>
             ELSE /\ UNCHANGED topmost_thread
                  /\ IF KeeperMustForce
                        THEN /\ win' \in ForceTopmostResults(win, hwnd)
                             /\ foreground' \in
                                   BringWindowToTop(foreground, win, hwnd)
                        ELSE UNCHANGED <<win, foreground>>
                  /\ topmost_log' =
                        IF topmost_log = "event"
                           THEN IF win.z = "below" /\ win'.z = "top"
                                   THEN "cycle_raised" ELSE "cycle_noop"
                           ELSE topmost_log
    /\ MainUnchanged
    /\ UNCHANGED <<is_running, process_thread, after_q, is_visible,
                   ov_is_running, force_topmost, hook_installed,
                   topmost_stop_event, hwnd, display_thread, current_frame>>

\* ------------------------------------------- the watchdog, step by step
\* A cycle of _topmost_keeper_loop() is not one step of the machine: the
\* loop test and the comparison of the foreground window come first, the
\* calls of _force_to_topmost() later, and the main thread can run between
\* them.  keeper_mid tells which watchdog threads are between the two.
KeeperAtTest(t) ==
    IF t = "cur" THEN ~keeper_mid.cur
                 ELSE keeper_mid.z < topmost_thread.replaced

KeeperAtForce(t) == IF t = "cur" THEN keeper_mid.cur ELSE keeper_mid.z > 0

\* "while not self.topmost_stop_event.is_set():" and
\* "if foreground_hwnd != self.hwnd:"
topmost_keeper_test ==
    /\ main_pc # "closed"
    /\ \E t \in Threads(topmost_thread) :
          /\ KeeperAtTest(t)
          /\ IF topmost_stop_event
                THEN /\ topmost_thread' = Exit(topmost_thread, t)
                     /\ UNCHANGED keeper_mid
                ELSE /\ UNCHANGED topmost_thread
                     /\ keeper_mid' =
                           IF ~KeeperMustForce THEN keeper_mid
                           ELSE IF t = "cur"
                                   THEN [keeper_mid EXCEPT !.cur = TRUE]
                                   ELSE [keeper_mid EXCEPT !.z = @ + 1]
    /\ MainUnchanged
    /\ UNCHANGED <<is_running, process_thread, after_q, is_visible,
                   ov_is_running, force_topmost, hook_installed,
                   topmost_stop_event, hwnd, display_thread, current_frame,
                   win, foreground, topmost_log>>

\* "self._force_to_topmost()" and the sleep that ends the cycle.
topmost_keeper_force ==
    /\ main_pc # "closed"
    /\ \E t \in Threads(topmost_thread) :
          /\ KeeperAtForce(t)
          /\ win' \in ForceTopmostResults(win, hwnd)
          /\ foreground' \in BringWindowToTop(foreground, win, hwnd)
          /\ keeper_mid' = IF t = "cur"
                              THEN [keeper_mid EXCEPT !.cur = FALSE]
                              ELSE [keeper_mid EXCEPT !.z = @ - 1]
    /\ MainUnchanged
    /\ UNCHANGED <<is_running, process_thread, after_q, is_visible,
                   ov_is_running, force_topmost, hook_installed,
                   topmost_stop_event, hwnd, display_thread, topmost_thread,
                   current_frame, topmost_log>>

\* A step of the main thread leaves the watchdog threads where they are;
\* the one start_topmost_keeper() replaces while it is alive runs on,
\* no longer the one self.topmost_thread names.
KeeperFollows ==
    keeper_mid' =
        IF topmost_thread'.replaced > topmost_thread.replaced
           THEN [cur |-> FALSE,
                 z |-> keeper_mid.z + (IF keeper_mid.cur THEN 1 ELSE 0)]
           ELSE keeper_mid

\* --------------------------------------------------------- desktop events
\* The codes a CBT hook is called with: a negative one, HCBT_ACTIVATE and
\* one of the other non-negative ones.
HookCodes == {-1, 0, HCBT_ACTIVATE}

\* The windows a hook call can be about.
Handles == {"overlay", "other"}

\* What the next hook of the chain can answer: 0 lets the operation go on,
\* 1 prevents it.
HookResults == {0, 1}

\* activation_hook_proc(nCode, wParam, lParam), wParam naming the window
\* about to be activated.  'raised' tells whether the body of its try
\* raises after the reassertion, 'next' is what CallNextHookEx answers.
\* reassert: _instant_force_topmost() is called; result: the value returned.
activation_hook_proc_IgnoreMode(nCode, activated, raised, next) ==
    [reassert |-> /\ nCode >= 0
                  /\ nCode = HCBT_ACTIVATE
                  /\ ~(activated = "overlay" /\ hwnd = "live"),
     result   |-> next]
activation_hook_proc_Suppress(nCode, activated, raised, next) ==
    [reassert |-> /\ nCode >= 0 /\ force_topmost
                  /\ nCode = HCBT_ACTIVATE
                  /\ ~(activated = "overlay" /\ hwnd = "live"),
     result   |-> IF nCode = HCBT_ACTIVATE /\ force_topmost
                     /\ ~(activated = "overlay" /\ hwnd = "live")
                     THEN 1 ELSE next]
activation_hook_proc(nCode, activated, raised, next) ==
    [reassert |-> /\ nCode >= 0 /\ force_topmost
                  /\ nCode = HCBT_ACTIVATE
                  /\ ~(activated = "overlay" /\ hwnd = "live"),
     result   |-> next]

\* Whether the system may call the hook for an activation: the hook is
\* registered, or hide() has unregistered it (UnhookWindowsHookEx) and has
\* not returned yet, and the call is one the system delivered before that.
HookCalls ==
    IF hook_installed
          \/ (HAS_WIN32 /\ main_pc \in {"hide_topmost_join", "hide_display_join"})
       THEN BOOLEAN ELSE {FALSE}

\* Another window is activated; kind tells whether it is a topmost window.
\* The CBT hook, when installed, may be called with HCBT_ACTIVATE before
\* the activation takes effect: activation_hook_proc calls
\* _instant_force_topmost() if self.force_topmost.  Unless the hook's
\* answer prevents it, the window manager then activates the other window,
\* which comes above the overlay if it is topmost itself or the overlay is
\* not in the topmost band.
other_window_activated ==
    /\ main_pc # "closed"
    /\ win.alive
    /\ \E kind \in {"normal", "topmost"} :
       \E hooked \in HookCalls :
       \E raised \in BOOLEAN :
       LET hook == activation_hook_proc(HCBT_ACTIVATE, "other", raised, 0) IN
       \E w \in (IF hooked /\ hook.reassert
                    THEN ForceTopmostResults(win, hwnd) ELSE {win}) :
          /\ IF hooked /\ hook.result # 0
                THEN /\ win' = w
                     /\ UNCHANGED foreground
                ELSE /\ win' = [w EXCEPT !.z = IF kind = "topmost" \/ ~w.band
                                                  THEN "below" ELSE @]
                     /\ foreground' = "other"
          /\ topmost_log' = IF hooked /\ ~hook_installed
                               THEN "late_hook" ELSE "event"
    /\ MainUnchanged
    /\ UNCHANGED <<is_running, process_thread, after_q, overlayVars>>

\* The user activates the overlay window: it comes to the top of its band.
\* The hook, when installed, is called for this activation as well.
overlay_activated ==
    /\ main_pc # "closed"
    /\ win.alive
    /\ foreground = "other"
    /\ \E hooked \in HookCalls :
       \E raised \in BOOLEAN :
       LET hook == activation_hook_proc(HCBT_ACTIVATE, "overlay", raised, 0) IN
       \E w \in (IF hooked /\ hook.reassert
                    THEN ForceTopmostResults(win, hwnd) ELSE {win}) :
          IF hooked /\ hook.result # 0
             THEN /\ win' = w
                  /\ UNCHANGED foreground
             ELSE /\ foreground' = "overlay"
                  /\ \E z \in (IF w.band THEN {"top"} ELSE {"top", "below"}) :
                        win' = [w EXCEPT !.z = z]
    /\ MainUnchanged
    /\ UNCHANGED <<is_running, process_thread, after_q, overlayVars,
                   topmost_log>>

\* The capture thread sees stop_event set at its loop test and returns.
\* (Its iterations are the subject of SpecCapture; they write nothing the
\* session reads.)
capture_thread_exit ==
    /\ main_pc # "closed"
    /\ stop_event
    /\ cap_pc = "check"
    /\ cap_pc' = "exited"
    /\ UNCHANGED <<stop_event, appVars, overlayVars, desktopVars, sessionHist>>

InitSession ==
    /\ platform \in {"full", "degraded", "none"}
    /\ is_running = FALSE
    /\ start_button = "normal"
    /\ stop_button = "disabled"
    /\ process_thread = NoThread
    /\ after_q = 0
    /\ sessions = 0
    /\ main_pc = "idle"
    /\ main_stack = <<>>
    /\ is_visible = FALSE
    /\ ov_is_running = FALSE
    /\ force_topmost = FALSE
    /\ hook_installed = FALSE
    /\ topmost_stop_event = FALSE
    /\ hwnd = "none"
    /\ display_thread = NoThread
    /\ topmost_thread = NoThread
    /\ current_frame = None
    /\ win = NoWindow
    /\ foreground = "other"
    /\ noops = {}
    /\ topmost_log = "none"
    /\ keeper_mid = [cur |-> FALSE, z |-> 0]


\* --------------------------------------------------------------- the locks
\* Two locks exist: the mutex inside queue.Queue, which full(),
\* get_nowait(), put() and get() take for their own duration, and the
\* overlay's thread_lock.  Three threads use them: the capture thread, the
\* processing thread and the display thread.  A lock is not reentrant:
\* acquiring waits until it is free.
Acquire(t, l, at) ==
    /\ locks.owner[l] = "free"
    /\ locks' = [locks EXCEPT !.owner[l] = t, !.pc[t] = at]

\* Leaving the lock's block for step 'to', the queue then holding n frames.
Release(t, l, to, n) ==
    locks' = [locks EXCEPT !.owner[l] = "free", !.pc[t] = to, !.qlen = n]

Goto(t, to) == locks' = [locks EXCEPT !.pc[t] = to]

\* display_loop(), the end of "with self.thread_lock:" after the copy.
display_copy_KeepLock(to) == Goto("display", to)
display_copy_done(to) == Release("display", "overlay", to, locks.qlen)

\* _capture_thread_func: the grab, then full(), get_nowait() and put().
capture_thread_locks ==
    LET pc == locks.pc["capture"]
        n == locks.qlen
    IN  \/ pc = "grab" /\ \E got \in BOOLEAN :
              Goto("capture", IF got THEN "full_wait" ELSE "grab")
        \/ pc = "full_wait" /\ Acquire("capture", "queue", "full")
        \/ pc = "full" /\ Release("capture", "queue",
                                   IF n >= queue_capacity THEN "evict_wait"
                                                          ELSE "put_wait", n)
        \/ pc = "evict_wait" /\ Acquire("capture", "queue", "evict")
        \/ pc = "evict" /\ IF n > 0
                               THEN Release("capture", "queue", "put_wait", n - 1)
                               ELSE Release("capture", "queue", "grab", n)
        \/ pc = "put_wait" /\ Acquire("capture", "queue", "put")
        \/ pc = "put" /\ Release("capture", "queue", "grab",
                                  IF n < queue_capacity THEN n + 1 ELSE n)

\* processing_loop: get_frame() (a get() that finds a frame or times out),
\* the detection and the mosaic on the copy, then overlay.update_frame().
processing_loop_locks ==
    LET pc == locks.pc["processing"]
        n == locks.qlen
    IN  \/ pc = "get_wait" /\ Acquire("processing", "queue", "get")
        \/ pc = "get" /\ Release("processing", "queue", "process",
                                  IF n > 0 THEN n - 1 ELSE n)
        \/ pc = "process" /\ \E frame \in BOOLEAN :
              Goto("processing", IF frame THEN "store_wait" ELSE "get_wait")
        \/ pc = "store_wait" /\ Acquire("processing", "overlay", "store")
        \/ pc = "store" /\ Release("processing", "overlay", "get_wait", n)

\* display_loop: the events, the copy of current_frame under the lock, the
\* conversion to a surface and the blit and flip.
display_loop_locks ==
    LET pc == locks.pc["display"]
    IN  \/ pc = "events" /\ Goto("display", "copy_wait")
        \/ pc = "copy_wait" /\ Acquire("display", "overlay", "copy")
        \/ pc = "copy" /\ display_copy_done("convert")
        \/ pc = "convert" /\ Goto("display", "present")
        \/ pc = "present" /\ Goto("display", "events")

InitLocks ==
    locks = [owner |-> [queue |-> "free", overlay |-> "free"],
             pc |-> [capture |-> "grab", processing |-> "get_wait",
                     display |-> "events"],
             qlen |-> 0]

\* ------------------------------------------------------- the frame buffers
\* A frame is a numpy array: a buffer that several variables can refer to.
\* fr tells which buffer each variable refers to (None: no buffer), so that
\* a write through one variable is seen through every other variable that
\* refers to the same buffer.
Holders == {"frame", "prev_frame", "original_frame", "processed_frame",
            "current_frame", "display_frame"}

\* No more buffers are referred to at a time than there are variables and
\* queue places; a buffer nothing refers to is freed and its place reused.
BufferIds == 1 .. (queue_capacity + Cardinality(Holders))

Range(s) == {s[i] : i \in 1 .. Len(s)}

Referenced ==
    Range(fr.queue) \cup {fr.v[h] : h \in Holders}

\* np.array(...), ndarray.copy(), cv2.resize(...): a new buffer.
NewBuffer == CHOOSE b \in BufferIds : b \notin Referenced /\
                 \A c \in BufferIds : c \notin Referenced => b <= c

\* The buffers a thread can reach through its own variables and through
\* the objects it shares.
ReachableBy(t) ==
    CASE t = "capture" -> {fr.v["frame"]} \cup Range(fr.queue)
      [] t = "processing" ->
            {fr.v["prev_frame"], fr.v["original_frame"],
             fr.v["processed_frame"], fr.v["current_frame"]}
                \cup Range(fr.queue)
      [] t = "display" -> {fr.v["current_frame"], fr.v["display_frame"]}

FrSet(h, b, t, to) == fr' = [fr EXCEPT !.v[h] = b, !.pc[t] = to]

FrGoto(t, to) == fr' = [fr EXCEPT !.pc[t] = to]

\* processing_loop: "processed_frame = original_frame.copy()"
processed_frame_NoCopy == fr.v["original_frame"]
processed_frame_copy == NewBuffer

\* _capture_thread_func: _capture_screen() builds a new array and blacks
\* the exclusion regions in it, then the array is put into the queue, the
\* oldest queued one being dropped from a full queue.
capture_thread_frames ==
    LET pc == fr.pc["capture"]
    IN  \/ pc = "grab" /\ \E got \in BOOLEAN :
              IF got THEN FrSet("frame", NewBuffer, "capture", "mask")
                     ELSE FrSet("frame", None, "capture", "grab")
        \/ pc = "mask" /\ FrGoto("capture", "put")
        \/ pc = "put" /\
              fr' = [fr EXCEPT
                       !.queue = Append(IF Len(@) >= queue_capacity
                                           THEN Tail(@) ELSE @,
                                        fr.v["frame"]),
                       !.pc["capture"] = "grab"]

\* processing_loop: get_frame() (a queued frame, else the previous one,
\* else a direct capture), the copy, the detection on the original, the
\* mosaic written into the copy, update_frame() with the copy.
processing_loop_frames ==
    LET pc == fr.pc["processing"]
    IN  \/ pc = "get_frame" /\
              IF fr.queue # <<>>
                 THEN fr' = [fr EXCEPT !.v["original_frame"] = Head(fr.queue),
                                       !.v["prev_frame"] = Head(fr.queue),
                                       !.queue = Tail(@),
                                       !.pc["processing"] = "copy"]
                 ELSE IF fr.v["prev_frame"] # None
                         THEN FrSet("original_frame", fr.v["prev_frame"],
                                    "processing", "copy")
                         ELSE \E got \in BOOLEAN :
                                 IF got THEN FrSet("original_frame", NewBuffer,
                                                   "processing", "copy")
                                        ELSE FrSet("original_frame", None,
                                                   "processing", "get_frame")
        \/ pc = "copy" /\ FrSet("processed_frame", processed_frame_copy,
                                 "processing", "detect")
        \/ pc = "detect" /\ \E detections \in BOOLEAN :
              FrGoto("processing", IF detections THEN "mosaic"
                                                 ELSE "update_frame")
        \/ pc = "mosaic" /\ FrGoto("processing", "update_frame")
        \/ pc = "update_frame" /\
              FrSet("current_frame", fr.v["processed_frame"],
                    "processing", "get_frame")

\* display_loop: the copy of current_frame (the black screen, which the
\* model does not count as a frame, while there is none), then the
\* conversion and the presentation of the copy.
display_loop_frames ==
    LET pc == fr.pc["display"]
    IN  \/ pc = "copy" /\
              FrSet("display_frame",
                    IF fr.v["current_frame"] # None THEN NewBuffer ELSE None,
                    "display", "render")
        \/ pc = "render" /\ FrGoto("display", "copy")

InitFrames ==
    fr = [queue |-> <<>>,
          v |-> [h \in Holders |-> None],
          pc |-> [capture |-> "grab", processing |-> "get_frame",
                  display |-> "copy"]]

\* ------------------------------------------------------- session counters
\* start_censoring(), stop_censoring() and processing_loop() as far as
\* they read or write self.stats, self.is_running and self.process_thread.
\* A processing thread is in one of two slots: "cur", the thread
\* process_thread names, and "z", the thread it named before.  A thread
\* has its local frame_count, the value it read for a "+= 1" (tmp) and the
\* number of detections of the current frame still to be counted (left).
StatKeys == <<"frames_processed", "objects_detected", "mosaic_applied">>

ZeroStats ==
    [frames_processed |-> 0, objects_detected |-> 0, mosaic_applied |-> 0]

DeadWorker == [pc |-> "dead", frame_count |-> 0, tmp |-> 0, left |-> 0]
NewWorker == [pc |-> "loop", frame_count |-> 0, tmp |-> 0, left |-> 0]

\* The statement a thread goes to after a detection has been counted: the
\* next detection of the frame, or update_frame() and the loop test.
AfterDetection(w) ==
    IF w.left > 1 THEN [w EXCEPT !.pc = "objects_read", !.left = @ - 1]
                  ELSE [w EXCEPT !.pc = "loop", !.left = 0]

\* frame_count += 1
CountFrame(n) == n + 1

\* start_censoring(): self.is_running = True
start_censoring_stats ==
    /\ workers.main = "idle"
    /\ ~workers.is_running
    /\ workers.sessions < MaxSessions
    /\ workers' = [workers EXCEPT !.is_running = TRUE, !.main = "reset",
                                  !.key = 1, !.sessions = @ + 1]
    /\ UNCHANGED stats

\* start_censoring(): "for key in self.stats: if key != 'start_time':
\* self.stats[key] = 0", one key per step, in the order of the dictionary.
start_censoring_reset ==
    /\ workers.main = "reset"
    /\ stats' = [stats EXCEPT ![StatKeys[workers.key]] = 0]
    /\ workers' = IF workers.key < Len(StatKeys)
                     THEN [workers EXCEPT !.key = @ + 1]
                     ELSE [workers EXCEPT !.key = 0, !.main = "thread"]

\* start_censoring(): self.process_thread = threading.Thread(...); start().
\* A thread the attribute named and that is still alive runs on.
start_censoring_thread ==
    /\ workers.main = "thread"
    /\ workers.th.cur.pc = "dead" \/ workers.th.z.pc = "dead"
    /\ workers' = [workers EXCEPT
                      !.main = "idle",
                      !.th = [cur |-> NewWorker,
                              z |-> IF workers.th.cur.pc # "dead"
                                       THEN workers.th.cur ELSE workers.th.z]]
    /\ UNCHANGED stats

\* stop_censoring(): "if not self.is_running: return"; self.is_running =
\* False; hide(); process_thread.join(timeout=1.0) if the thread is alive.
stop_censoring_stats ==
    /\ workers.main = "idle"
    /\ workers.is_running
    /\ workers' = [workers EXCEPT
                      !.is_running = FALSE,
                      !.main = IF workers.th.cur.pc # "dead"
                                  THEN "join" ELSE "idle"]
    /\ UNCHANGED stats

\* The join(timeout=1.0) of stop_censoring() returns: the thread has
\* returned or the timeout has elapsed.
join_return_stats ==
    /\ workers.main = "join"
    /\ workers' = [workers EXCEPT !.main = "idle"]
    /\ UNCHANGED stats

\* processing_loop(), one statement of thread t.  "loop" is the loop test
\* with get_frame() and the frame counter (an iteration whose get_frame()
\* returns None changes nothing); a "+= 1" on a counter is a read and a
\* write.
processing_loop_stats ==
    \E t \in {"cur", "z"} :
       LET w == workers.th[t]
           Set(v) == workers' = [workers EXCEPT !.th[t] = v]
       IN
       CASE w.pc = "loop" ->
               IF ~workers.is_running
                  THEN Set(DeadWorker) /\ UNCHANGED stats
                  ELSE /\ w.frame_count < MaxFrames
                       /\ stats' = [stats EXCEPT !.frames_processed =
                                                  CountFrame(w.frame_count)]
                       /\ \E n \in 0 .. MaxDetections :
                             Set([w EXCEPT
                                    !.frame_count = CountFrame(@),
                                    !.left = n,
                                    !.pc = IF n > 0 THEN "objects_read"
                                                    ELSE "loop"])
         [] w.pc = "objects_read" ->
               /\ Set([w EXCEPT !.tmp = stats.objects_detected,
                                !.pc = "objects_write"])
               /\ UNCHANGED stats
         [] w.pc = "objects_write" ->
               /\ stats' = [stats EXCEPT !.objects_detected = w.tmp + 1]
               /\ \E target \in BOOLEAN :
                     Set(IF target THEN [w EXCEPT !.pc = "mosaic_read", !.tmp = 0]
                                   ELSE AfterDetection([w EXCEPT !.tmp = 0]))
         [] w.pc = "mosaic_read" ->
               /\ Set([w EXCEPT !.tmp = stats.mosaic_applied,
                                !.pc = "mosaic_write"])
               /\ UNCHANGED stats
         [] w.pc = "mosaic_write" ->
               /\ stats' = [stats EXCEPT !.mosaic_applied = w.tmp + 1]
               /\ Set(AfterDetection([w EXCEPT !.tmp = 0]))
         [] OTHER -> FALSE

InitStats ==
    /\ stats = ZeroStats
    /\ workers = [is_running |-> FALSE, main |-> "idle", key |-> 0,
                  sessions |-> 0,
                  th |-> [cur |-> DeadWorker, z |-> DeadWorker]]

\* -------------------------------------------------------------------- Init
\* ScreenCapturer.__init__ ends with start_capture_thread().
InitCapture ==
    /\ frame_queue = <<>>
    /\ stop_event = FALSE
    /\ cap_pc = "check"
    /\ cap_frame = None
    /\ retry_count = 0
    /\ prev_frame = None
    /\ shots = 0
    /\ cap_caller = "idle"
    /\ gf = [kind |-> "none", val |-> None, prevBefore |-> None,
             directCalled |-> FALSE, direct |-> None, pushedBefore |-> FALSE,
             newestBefore |-> None]
    /\ everPushed = FALSE
    /\ pushLog = <<>>
    /\ stop_pushes = 0
    /\ cap_replaced = 0
    /\ drained = <<>>

Init ==
    InitCapture /\ InitMask /\ InitMosaic /\ InitSession /\ InitLocks /\ InitFrames
        /\ InitStats

\* The components below do not depend on the platform; they are explored on
\* one.
InitComponent == Init /\ platform = "full"

\* The capturer with its capture thread, a consumer calling get_frame() and
\* an owner calling start/stop_capture_thread().
CaptureOnly ==
    UNCHANGED <<maskVars, mosaicVars, sessionVars, keeper_mid, locks, fr, stats, workers>>

NextCapture ==
    \/ CapCheck /\ CaptureOnly
    \/ CapCapture /\ CaptureOnly
    \/ CapFull /\ CaptureOnly
    \/ CapEvict /\ CaptureOnly
    \/ CapPut /\ CaptureOnly
    \/ GetFramePop /\ CaptureOnly
    \/ GetFrameTimeout /\ CaptureOnly
    \/ start_capture_thread /\ CaptureOnly
    \/ stop_capture_thread /\ CaptureOnly
    \/ stop_capture_join /\ CaptureOnly

SpecCapture == InitComponent /\ [][NextCapture]_vars

\* The same with the capture thread scheduled: a step of it that can be
\* taken is taken, which includes the return of the capture call in flight.
CaptureThreadStep == CapCheck \/ CapCapture \/ CapFull \/ CapEvict \/ CapPut

SpecCaptureFair ==
    InitComponent /\ [][NextCapture]_vars
        /\ WF_vars(CaptureThreadStep /\ CaptureOnly)

\* _capture_screen's masking under every configuration of exclusion regions.
MaskOnly ==
    UNCHANGED <<capVars, capHist, mosaicVars, sessionVars, keeper_mid, locks,
                fr, stats, workers>>

NextMask ==
    \/ add_exclude_region /\ MaskOnly
    \/ clear_exclude_regions /\ MaskOnly
    \/ capture_screen /\ MaskOnly

SpecMask == InitComponent /\ [][NextMask]_vars

\* One frame through detect_objects and the mosaic loop.
MosaicOnly ==
    UNCHANGED <<capVars, capHist, maskVars, sessionVars, keeper_mid, locks,
                fr, stats, workers>>

NextMosaic ==
    \/ configure /\ MosaicOnly
    \/ detect_objects_add /\ MosaicOnly
    \/ detect_objects_return /\ MosaicOnly
    \/ processing_loop_mosaic /\ MosaicOnly
    \/ detect_objects_detailed /\ MosaicOnly

SpecMosaic == InitComponent /\ [][NextMosaic]_vars

\* A run of the application: the main thread's handlers, the processing,
\* display and watchdog threads, the capture thread's exit and the desktop.
SessionOnly ==
    UNCHANGED <<frame_queue, cap_frame, retry_count, prev_frame, shots,
                cap_caller, capHist, maskVars, mosaicVars, keeper_mid, locks,
                fr, stats, workers>>

Next ==
    \/ start_censoring /\ SessionOnly
    \/ stop_censoring_call /\ SessionOnly
    \/ after_callback /\ SessionOnly
    \/ on_closing_call /\ SessionOnly
    \/ keyboard_interrupt /\ SessionOnly
    \/ join_return /\ SessionOnly
    \/ processing_loop /\ SessionOnly
    \/ display_loop /\ SessionOnly
    \/ topmost_keeper_loop /\ SessionOnly
    \/ other_window_activated /\ SessionOnly
    \/ overlay_activated /\ SessionOnly
    \/ capture_thread_exit /\ SessionOnly

Spec == Init /\ [][Next]_vars

\* The same, with the one progress assumption the stop paths rest on: a
\* join that can return does return.  Nothing is assumed about the worker
\* threads, which may run forever or never be scheduled.  The desktop's
\* events, which no join depends on, are left out, and the platform is the
\* one on which every thread of the overlay is started.
NextShutdown ==
    \/ start_censoring /\ SessionOnly
    \/ stop_censoring_call /\ SessionOnly
    \/ after_callback /\ SessionOnly
    \/ on_closing_call /\ SessionOnly
    \/ keyboard_interrupt /\ SessionOnly
    \/ join_return /\ SessionOnly
    \/ processing_loop /\ SessionOnly
    \/ display_loop /\ SessionOnly
    \/ topmost_keeper_loop /\ SessionOnly
    \/ capture_thread_exit /\ SessionOnly

\* The overlay's show() and hide() against the watchdog taken step by step
\* and the activations that make it act.
TeardownOnly ==
    UNCHANGED <<frame_queue, cap_frame, retry_count, prev_frame, shots,
                cap_caller, capHist, maskVars, mosaicVars, locks, fr, stats, workers>>

NextTeardown ==
    \/ start_censoring /\ KeeperFollows /\ TeardownOnly
    \/ stop_censoring_call /\ KeeperFollows /\ TeardownOnly
    \/ join_return /\ KeeperFollows /\ TeardownOnly
    \/ topmost_keeper_test /\ TeardownOnly
    \/ topmost_keeper_force /\ TeardownOnly
    \/ other_window_activated /\ UNCHANGED keeper_mid /\ TeardownOnly

SpecTeardown == Init /\ [][NextTeardown]_vars

\* The three threads on the two locks.
LocksOnly ==
    UNCHANGED <<capVars, capHist, maskVars, mosaicVars, sessionVars,
                keeper_mid, fr, stats, workers>>

NextLocks ==
    \/ capture_thread_locks /\ LocksOnly
    \/ processing_loop_locks /\ LocksOnly
    \/ display_loop_locks /\ LocksOnly

SpecLocks == InitComponent /\ [][NextLocks]_vars

\* The three threads on the frame buffers.
FramesOnly ==
    UNCHANGED <<capVars, capHist, maskVars, mosaicVars, sessionVars,
                keeper_mid, locks, stats, workers>>

NextFrames ==
    \/ capture_thread_frames /\ FramesOnly
    \/ processing_loop_frames /\ FramesOnly
    \/ display_loop_frames /\ FramesOnly

SpecFrames == InitComponent /\ [][NextFrames]_vars

\* The session counters: the main thread starting and stopping sessions and
\* the processing threads counting.
StatsOnly ==
    UNCHANGED <<capVars, capHist, maskVars, mosaicVars, sessionVars,
                keeper_mid, locks, fr>>

NextStats ==
    \/ start_censoring_stats /\ StatsOnly
    \/ start_censoring_reset /\ StatsOnly
    \/ start_censoring_thread /\ StatsOnly
    \/ stop_censoring_stats /\ StatsOnly
    \/ join_return_stats /\ StatsOnly
    \/ processing_loop_stats /\ StatsOnly

SpecStats == InitComponent /\ [][NextStats]_vars

SpecShutdown ==
    InitComponent /\ [][NextShutdown]_vars /\ WF_vars(join_return /\ SessionOnly)

\* ================================================================== claims

\* A session has ended and nothing more is going to run for it: no
\* processing thread is left, no stop_censoring callback is pending and the
\* main thread is between handlers.
SessionOver ==
    /\ sessions > 0
    /\ ~is_running
    /\ main_pc = "idle"
    /\ after_q = 0
    /\ Threads(process_thread) = {}

\* C1: every session end, by an explicit stop or by the overlay being closed
\* with ESC or a QUIT event, leads to the overlay's hide() being executed
\* and to the Stopped state in which a new start is possible: once a session
\* is over, the overlay is hidden and the start button is enabled.
C1_SessionEndReachesStopped ==
    SessionOver => (~is_visible /\ start_button = "normal")

\* A step of the main thread that enters or continues a stop path.
StopPathStep ==
    \/ stop_censoring_call
    \/ after_callback
    \/ on_closing_call
    \/ keyboard_interrupt
    \/ join_return

InsideHide == main_pc \in {"hide_topmost_join", "hide_display_join"}

\* C2: stopping is idempotent.  stop_censoring() called when no session is
\* running (a second time in a row, or before any start) changes nothing;
\* a stop path that calls the overlay's hide() while the overlay is not
\* visible leaves the overlay and its window as they are; one that calls
\* stop_capture_thread() while no capture thread runs leaves the capturer as
\* it is.  No such call fails: each returns to its caller.
C2_StopIdempotent ==
    [][ /\ ((stop_censoring_call \/ after_callback) /\ ~is_running)
            => /\ UNCHANGED <<is_running, start_button, stop_button,
                              process_thread, sessions, main_pc, main_stack,
                              overlayVars, desktopVars, capVars>>
               /\ main_pc' = "idle"
        /\ (StopPathStep /\ ~InsideHide /\ ~is_visible)
            => UNCHANGED <<overlayVars, desktopVars>>
        /\ (StopPathStep /\ ~CapThreadAlive)
            => UNCHANGED capVars
      ]_vars

\* All three kinds of call have been made with nothing to stop, after a
\* session had run.
C2_Witness ==
    /\ sessions > 0
    /\ noops = {"stop_censoring", "hide", "stop_capture_thread"}

\* C11: a start whose show() fails leaves the system Stopped.  When
\* start_censoring() returns after show() failed, is_running is false, no
\* processing thread has been started, the overlay is not visible and the
\* start button is enabled again.  (The handler may first wait in
\* stop_censoring()'s join for a processing thread of an earlier session.)
C11_StartFailureLeavesStopped ==
    [][ /\ (\E o \in OsOutcomes : start_censoring_with(o) /\ ~show(MainState, o).ok)
            => /\ ~is_running'
               /\ ~is_visible'
               /\ process_thread' = process_thread
               /\ main_pc' \in {"idle", "stop_censoring_join"}
               /\ main_pc' = "idle" => start_button' = "normal"
        /\ (join_return /\ main_pc = "stop_censoring_join" /\ main_stack = <<>>)
            => /\ ~is_running'
               /\ ~is_visible'
               /\ process_thread' = process_thread
               /\ main_pc' = "idle"
               /\ start_button' = "normal"
      ]_vars

\* On a platform whose show() sets self.hwnd, a start has been made and has
\* returned while no window was ever created: its show() failed.
C11_Witness ==
    /\ platform = "full"
    /\ sessions > 0
    /\ hwnd = "none"
    /\ main_pc = "idle"
    /\ ~is_running
    /\ start_button = "normal"

\* C12: an error raised by one iteration of the processing loop does not
\* end the loop; the loop ends only on stop or on overlay close.  So while
\* the session is running and the overlay is open, the processing thread
\* start_censoring() started is alive.
C12_LoopSurvivesIterationError ==
    (is_running /\ is_window_visible /\ main_pc = "idle")
        => Alive(process_thread)

\* C13: an explicit stop stops capture.  Once stop_censoring() has completed
\* for a session whose overlay was shown (the overlay's window has been
\* destroyed by hide() and the start button is enabled again), the capture
\* thread's stop flag is set.
C13_StopSignalsCapture ==
    (hwnd = "stale" /\ ~is_running /\ main_pc = "idle"
        /\ start_button = "normal")
        => stop_event

\* C14: shutdown cannot hang.  Whenever the main thread waits in a join of
\* stop_censoring(), hide(), stop_topmost_keeper(), stop_capture_thread() or
\* cleanup(), the handler goes on and ends (the main thread is idle again
\* or the application has closed), even if the thread waited for never
\* exits.
C14_ShutdownTerminates ==
    (main_pc \in JoinLabels) ~> (main_pc \in {"idle", "closed"})

\* stop_censoring() has returned although the watchdog, the display thread
\* and the processing thread it waited for are all still running.
C14_Witness ==
    /\ main_pc = "idle"
    /\ ~is_running
    /\ ~is_visible
    /\ start_button = "normal"
    /\ Alive(topmost_thread)
    /\ Alive(display_thread)
    /\ Alive(process_thread)

\* C15: capture errors are never fatal.  Whatever sequence of grabs fails,
\* the capture thread leaves its loop only in a step taken with the stop
\* flag set, and a capture thread that has returned did so under a set
\* stop flag that nothing has cleared since.
C15_CaptureErrorsNotFatal ==
    [][ /\ (cap_pc # "exited" /\ cap_pc' = "exited") => stop_event
        /\ cap_pc' = "exited" => stop_event'
      ]_vars

\* RetryLimit grabs in a row have failed and the thread is in its loop,
\* grabbing again, with the stop flag clear.
C15_Witness ==
    /\ retry_count = RetryLimit
    /\ cap_pc = "capture"
    /\ ~stop_event

\* C16: the producer never stalls on the queue.  Whenever the capture thread
\* is at one of its queue operations (full(), get_nowait(), put(block=False))
\* that operation can complete at once, whatever the queue holds and
\* whatever the consumer has done in between.
C16_ProducerNeverStalls ==
    (cap_pc \in {"full", "evict", "put"})
        => ENABLED (CapFull \/ CapEvict \/ CapPut)

\* The capture thread found the queue full and is about to evict, and the
\* consumer has emptied the queue in between.
C16_Witness ==
    /\ cap_pc = "evict"
    /\ frame_queue = <<>>

\* C17: detection failure is absorbed.  detect_objects() returns the empty
\* list when the model is not loaded or the inference raises, so the
\* processing of the frame goes on; every detection it returns has x2 > x1,
\* y2 > y1 and a confidence of at least the threshold.
C17_DetectionFailureAbsorbed ==
    /\ mz_detect \in {"no_model", "raised"} => mz_dets = <<>>
    /\ \A i \in 1 .. Len(mz_dets) :
          /\ mz_dets[i].bbox[3] > mz_dets[i].bbox[1]
          /\ mz_dets[i].bbox[4] > mz_dets[i].bbox[2]
          /\ mz_dets[i].confidence >= conf_threshold

\* The inference raised and the frame went on to the overlay unchanged.
C17_Witness ==
    /\ mz_detect = "raised"
    /\ mz_pc = "shown"
    /\ mz_out.frame = mz_in

\* C18: the activation hook never suppresses events.  Whatever the code,
\* the window and the outcome of the reassertion, the hook returns what
\* the next hook of the chain answers, and it reasserts the overlay's
\* z-order only when the window about to be activated is not the
\* overlay's; so another window's activation always takes effect, and the
\* overlay's own activation is never answered by a reassertion.
C18_HookNeverSuppresses ==
    [][ /\ \A nCode \in HookCodes, activated \in Handles,
             raised \in BOOLEAN, next \in HookResults :
             LET hook == activation_hook_proc(nCode, activated, raised, next)
             IN  /\ hook.result = next
                 /\ hook.reassert =>
                       ~(activated = "overlay" /\ hwnd = "live")
        /\ other_window_activated => foreground' = "other"
        /\ overlay_activated =>
              /\ foreground' = "overlay"
              /\ win'.band = win.band
      ]_vars

\* The hook was installed and in force when another window took the
\* foreground from the overlay, which the hook kept in the topmost band.
C18_Witness ==
    /\ hook_installed /\ force_topmost
    /\ hwnd = "live" /\ win.alive /\ win.band
    /\ foreground = "other"
    /\ topmost_log = "event"

\* C19: topmost reassertion never activates the overlay.  A cycle of the
\* watchdog that corrects the z-order leaves the foreground window as it
\* was, and so does a call of the hook: after it the foreground window is
\* the one whose activation the hook was called for.
C19_ReassertionKeepsForeground ==
    [][ /\ topmost_keeper_loop => foreground' = foreground
        /\ other_window_activated => foreground' = "other"
      ]_vars

\* C20: protection-setup failures degrade gracefully.  When a start's
\* show() creates the window and setting the capture exclusion or the
\* click-through style fails, show() still succeeds and the session runs,
\* and the steps after them are made: the window is put in the topmost
\* band, force_topmost is set, the hook is installed if the OS grants it
\* and the watchdog is started.
C20_ProtectionFailureDegrades ==
    [][ \A o \in OsOutcomes :
          ( /\ start_censoring_with(o)
            /\ HAS_WIN32 /\ o.init /\ o.pos
            /\ ~o.aff \/ ~o.click )
          => /\ show(MainState, o).ok
             /\ is_visible' /\ is_running'
             /\ Alive(process_thread') /\ Alive(display_thread')
             /\ win'.band /\ win'.z = "top"
             /\ force_topmost'
             /\ o.hook => hook_installed'
             /\ Alive(topmost_thread') /\ ~topmost_stop_event'
      ]_vars

\* A session runs with a visible overlay that has neither the capture
\* exclusion nor the click-through style, under a running watchdog.
C20_Witness ==
    /\ platform = "degraded"
    /\ is_running /\ is_visible
    /\ hwnd = "live" /\ win.alive
    /\ ~win.affinity /\ ~win.click
    /\ win.band /\ force_topmost
    /\ Alive(topmost_thread) /\ Alive(process_thread)

\* C21: show() result and ordering.  A show() called on a hidden overlay
\* succeeds exactly when the window was created; when it succeeds the
\* window exists, the protection sequence has been run on it (where the
\* window functions exist), and the overlay is visible and running with
\* its display thread started; when it fails no display thread has been
\* started and the overlay is neither visible nor running.
C21_ShowResultAndOrdering ==
    [][ \A o \in OsOutcomes :
          start_censoring_with(o) =>
             LET r == show(MainState, o)
             IN  /\ r.ok <=> o.init
                 /\ r.ok =>
                       /\ win'.alive
                       /\ HAS_WIN32 => hwnd' = "live"
                       /\ is_visible' /\ ov_is_running'
                       /\ Alive(display_thread')
                 /\ ~r.ok =>
                       /\ ~is_visible' /\ ~ov_is_running'
                       /\ display_thread' = display_thread
                       /\ topmost_thread' = topmost_thread
                       /\ win' = win
      ]_vars

\* The only start made so far has returned, no window was ever created and
\* no display thread was ever started: its show() failed.
C21_Witness ==
    /\ platform = "degraded"
    /\ sessions = 1
    /\ main_pc = "idle"
    /\ hwnd = "none" /\ ~win.alive
    /\ ~is_visible /\ ~ov_is_running
    /\ display_thread = NoThread

\* C22: protection state is per-session.  Once hide() has returned, and
\* before any show(), force_topmost is off, the hook is not installed and
\* no watchdog thread runs; and on a platform with the window functions a
\* visible overlay has every protection of its own session: force_topmost,
\* the hook, a watchdog, click-through and capture exclusion.
C22_ProtectionPerSession ==
    /\ (~is_visible /\ ~InsideHide) =>
          /\ ~force_topmost
          /\ ~hook_installed
          /\ Threads(topmost_thread) = {}
    /\ (platform = "full" /\ is_visible) =>
          /\ force_topmost /\ hook_installed
          /\ Alive(topmost_thread) /\ ~topmost_stop_event
          /\ test_click_through /\ test_capture_protection

\* C23: capture back-off threshold.  The capture that fails as the fifth
\* in a row makes the thread back off and sets its retry counter to zero,
\* and any successful capture sets the counter to zero.
C23_BackoffAfterFiveFailures ==
    [][ /\ ( /\ cap_pc = "capture" /\ cap_pc' = "check"
              /\ retry_count = RetryLimit - 1 ) => retry_count' = 0
        /\ (cap_pc = "put" /\ cap_pc' = "check") => retry_count' = 0
      ]_vars

\* C24: click-through verification.  When the protection sequence of a
\* show() verifies the click-through style, a style that verifies is left
\* alone, and one that does not is cleared and applied again once: the
\* window ends with the style exactly if the first attempt or that one
\* retry set it, and a failed retry is followed by no other.
C24_ClickThroughRetriedOnce ==
    [][ \A o \in OsOutcomes :
          (start_censoring_with(o) /\ HAS_WIN32 /\ o.init /\ o.pos)
          => /\ win'.click = (o.click \/ o.retry)
             /\ (~o.click /\ ~o.retry) => ~win'.click
      ]_vars

\* A visible overlay whose click-through style failed at the first attempt
\* and at the retry.
C24_Witness ==
    /\ platform = "degraded"
    /\ is_visible /\ force_topmost
    /\ hwnd = "live" /\ win.alive /\ win.band
    /\ ~win.click
    /\ win.affinity

\* C25: teardown order.  Inside hide() the hook is unregistered before the
\* watchdog is waited for; the window is destroyed only with the hook
\* unregistered and the watchdog signalled and waited for; and neither the
\* watchdog nor the hook issues a z-order call on the handle of a window
\* that has been destroyed.
C25_TeardownOrder ==
    [][ /\ InsideHide' => ~hook_installed'
        /\ (win.alive /\ ~win'.alive) =>
              /\ ~hook_installed'
              /\ Alive(topmost_thread') => topmost_stop_event'
        /\ topmost_keeper_force => (hwnd = "live" /\ win.alive)
        /\ (other_window_activated /\ hook_installed /\ force_topmost)
              => (hwnd = "live" /\ win.alive)
      ]_vars

\* C26: mosaic strength is clamped.  Every apply_mosaic call made for a
\* frame is made with a strength between 1 and 50, whatever value the
\* strength setting held when the session was configured.
C26_StrengthClamped ==
    \A i \in 1 .. Len(mz_calls) :
        /\ mz_calls[i].strength >= StrengthLow
        /\ mz_calls[i].strength <= StrengthHigh

\* C27: lock discipline.  The overlay's lock is held by the processing
\* thread only while it stores the frame and by the display thread only
\* while it copies it, never during conversion or presentation; no thread
\* holds both locks; and in every state some thread can take a step, and a
\* thread that waits for a lock waits for a thread that is not waiting.
C27_LockDiscipline ==
    /\ locks.owner["overlay"] \in {"free", "processing", "display"}
    /\ locks.owner["overlay"] = "processing" => locks.pc["processing"] = "store"
    /\ locks.owner["overlay"] = "display" => locks.pc["display"] = "copy"
    /\ locks.pc["display"] \in {"convert", "present"}
          => locks.owner["overlay"] # "display"
    /\ locks.owner["queue"] = "free"
          \/ locks.owner["queue"] # locks.owner["overlay"]
    /\ \A t \in {"capture", "processing", "display"} :
          locks.pc[t] \in {"full_wait", "evict_wait", "put_wait", "get_wait",
                           "store_wait", "copy_wait"}
             => \A l \in {"queue", "overlay"} :
                   locks.owner[l] # "free" =>
                      locks.pc[locks.owner[l]] \in
                         {"full", "evict", "put", "get", "store", "copy"}
    /\ ENABLED (capture_thread_locks \/ processing_loop_locks
                   \/ display_loop_locks)

\* The display thread waits for the overlay's lock while the processing
\* thread stores a frame and the capture thread is inside the queue.
C27_Witness ==
    /\ locks.owner["overlay"] = "processing"
    /\ locks.pc["display"] = "copy_wait"
    /\ locks.owner["queue"] = "capture"
    /\ locks.qlen = queue_capacity

\* C28: cooperative cancellation of capture.  While the stop flag is set
\* the capture thread puts at most one more frame into the queue, and a
\* running capture thread whose stop flag is set eventually terminates.
C28_CooperativeCancellation ==
    /\ [](stop_pushes <= 1)
    /\ (stop_event /\ CapThreadAlive) ~> ~CapThreadAlive

\* The thread has put one frame after the flag was set and has terminated.
C28_Witness ==
    /\ stop_event
    /\ stop_pushes = 1
    /\ ~CapThreadAlive

\* C29: at most one capture thread.  Under every sequence of
\* start_capture_thread() and stop_capture_thread() calls, a stop whose
\* join timed out included, at most one capture thread is alive.
C29_AtMostOneCaptureThread ==
    (IF CapThreadAlive THEN 1 ELSE 0) + cap_replaced <= 1

\* stop_capture_thread() has returned from a join that timed out: the flag
\* is set and the thread is still in its iteration.
C29_Witness ==
    /\ cap_caller = "idle"
    /\ stop_event
    /\ CapThreadAlive
    /\ cap_pc # "check"
    /\ cap_replaced = 0

\* C30: no shared mutable frame.  A thread that is about to write a buffer
\* is the only one that can reach it: the capture thread blacks regions in
\* an array no other thread has, and the processing loop writes the mosaic
\* into its copy, which is neither the frame get_frame() returned nor the
\* previous frame nor the one the overlay holds; and the display thread
\* converts a copy, not the overlay's frame.
C30_NoSharedMutableFrame ==
    /\ fr.pc["capture"] = "mask" =>
          fr.v["frame"] \notin
              (ReachableBy("processing") \cup ReachableBy("display"))
    /\ fr.pc["processing"] = "mosaic" =>
          /\ fr.v["processed_frame"] \notin
                (ReachableBy("capture") \cup ReachableBy("display"))
          /\ fr.v["processed_frame"] # fr.v["original_frame"]
          /\ fr.v["processed_frame"] # fr.v["prev_frame"]
    /\ (fr.pc["display"] = "render" /\ fr.v["display_frame"] # None) =>
          fr.v["display_frame"] \notin
              (ReachableBy("capture") \cup ReachableBy("processing"))

\* The processing loop is about to write the mosaic while the frame it got
\* is the reused previous frame, the capture thread still refers to that
\* frame, and the display thread converts a copy of an earlier result.
C30_Witness ==
    /\ fr.pc["processing"] = "mosaic"
    /\ fr.queue = <<>>
    /\ fr.v["original_frame"] = fr.v["prev_frame"]
    /\ fr.v["original_frame"] = fr.v["frame"]
    /\ fr.pc["display"] = "render"
    /\ fr.v["display_frame"] # None
    /\ fr.v["current_frame"] # None

\* C31: no stale frame across sessions: in a session started after a
\* previous one was stopped, the render loop draws the black screen until the
\* first update_frame() of that session; the frame it draws
\* (overlay.current_frame, while the overlay is shown and a render thread
\* runs its loop) is never one handed over during an earlier session.
C31_NoStaleFrame ==
    (is_visible /\ ov_is_running /\ Threads(display_thread) # {})
        => current_frame \in {None, sessions}

\* C32: at most one processing thread.  Under any sequence of
\* start_censoring() and stop_censoring() calls, a stop whose join of the
\* processing thread timed out included, at most one processing loop is
\* running, and a loop that was told to stop (a thread that is no longer the
\* one process_thread names) never finds is_running set again.
C32_AtMostOneProcessingThread ==
    /\ (IF Alive(process_thread) THEN 1 ELSE 0) + process_thread.replaced <= 1
    /\ process_thread.replaced > 0 => ~is_running

\* C33: overlay worker threads are not revived.  At most one render thread
\* and at most one watchdog thread run per overlay, and a thread that hide()
\* told to stop and whose join timed out (a thread the overlay's attribute
\* no longer names) never finds its stop condition withdrawn: is_running
\* stays cleared for a replaced render thread and topmost_stop_event stays
\* set for a replaced watchdog.
C33_OverlayWorkersNotRevived ==
    /\ (IF Alive(display_thread) THEN 1 ELSE 0) + display_thread.replaced <= 1
    /\ (IF Alive(topmost_thread) THEN 1 ELSE 0) + topmost_thread.replaced <= 1
    /\ display_thread.replaced > 0 => ~ov_is_running
    /\ topmost_thread.replaced > 0 => topmost_stop_event

\* C34: eviction only when full.  Under any interleaving of the capture
\* thread with get_frame(), the capture thread's get_nowait() discards a
\* frame only from a queue that holds queue_capacity frames and is followed
\* by the put, and the put inserts the captured frame: the full-check, the
\* eviction and the insert behave as one atomic push.
C34_EvictionOnlyWhenFull ==
    [][/\ (cap_pc = "evict" /\ cap_pc' # "evict")
             => /\ Len(frame_queue) = queue_capacity
                /\ cap_pc' = "put"
       /\ (cap_pc = "put" /\ cap_pc' # "put")
             => frame_queue' = Append(frame_queue, cap_frame)]_vars

\* C35: frames do not go back in time.  Across successive get_frame()
\* calls (queue pop, reuse of the previous frame, or direct capture) a
\* returned frame is never one captured earlier than a frame returned by a
\* previous call.
C35_FramesDoNotGoBack ==
    gf.val # None => gf.val >= gf.newestBefore

\* C36: restart of capture takes effect.  Whenever start_capture_thread()
\* is called and returns, a capture thread is alive and the stop flag is
\* clear, also right after a stop_capture_thread() whose join timed out:
\* no call of start_capture_thread() can return with the flag still set or
\* without a live thread.
C36_RestartTakesEffect ==
    ~ENABLED (/\ start_capture_thread
              /\ ~(cap_pc' # "exited" /\ ~stop_event'))

\* C37: no z-order correction after teardown begins.  Once hide() has
\* cleared force_topmost, no call of the activation hook reasserts the
\* overlay's z-order, whatever it is called with, a call delivered before
\* the hook was unregistered included: an activation of another window then
\* leaves the overlay's band as it is and never brings the overlay back to
\* the top.
C37_NoReassertionAfterTeardown ==
    [][ /\ ~force_topmost =>
              \A nCode \in HookCodes, activated \in Handles,
                 raised \in BOOLEAN, next \in HookResults :
                 ~activation_hook_proc(nCode, activated, raised, next).reassert
        /\ (other_window_activated /\ ~force_topmost) =>
              /\ win'.band = win.band
              /\ win'.z = "top" => win.z = "top"
      ]_vars

\* hide() has cleared force_topmost and unregistered the hook and is waiting
\* for a thread; the window still exists, below another one, and a hook
\* call delivered before the unregistering has run for the activation of
\* another window.
C37_Witness ==
    /\ main_pc \in {"hide_topmost_join", "hide_display_join"}
    /\ ~force_topmost /\ ~hook_installed
    /\ win.alive /\ hwnd = "live"
    /\ win.z = "below"
    /\ foreground = "other"
    /\ topmost_log = "late_hook"

\* C38: session counters.  When a start has reset the counters and started
\* the processing thread, frames_processed, objects_detected and
\* mosaic_applied are zero; a step of a processing thread never decreases
\* one of them and changes frames_processed by exactly one if at all; and
\* mosaic_applied <= objects_detected in every state outside the reset
\* itself.
C38_SessionCounters ==
    [][ /\ (workers.main = "thread" /\ workers'.main = "idle")
              => stats' = ZeroStats
        /\ (workers'.main = workers.main /\ workers'.th # workers.th) =>
              /\ stats'.frames_processed >= stats.frames_processed
              /\ stats'.objects_detected >= stats.objects_detected
              /\ stats'.mosaic_applied >= stats.mosaic_applied
              /\ stats'.frames_processed # stats.frames_processed
                    => stats'.frames_processed = stats.frames_processed + 1
        /\ workers.main # "reset"
              => stats.mosaic_applied <= stats.objects_detected
        /\ workers'.main # "reset"
              => stats'.mosaic_applied <= stats'.objects_detected
      ]_vars

\* C3: in every reachable state, under any interleaving of the capture
\* thread's pushes and the consumer's get_frame() pops, the frame queue
\* holds at most queue_capacity frames.
C3_QueueBounded == Len(frame_queue) <= queue_capacity

\* C3 witness: more frames than the capacity have been put with no pop in
\* between, and the queue is full.
C3_Witness == Len(pushLog) > queue_capacity /\ Len(frame_queue) = queue_capacity

\* C4: after n > queue_capacity puts with no intervening pop the queue holds
\* exactly the last queue_capacity put frames in put order, and the
\* get_frame() pops that follow return them oldest first (the frames popped
\* so far followed by the frames still queued are those last frames).  The
\* state between the capture thread's eviction and its put is excluded.
C4_DropOldestOrder ==
    (Len(pushLog) > queue_capacity /\ cap_pc # "put")
        => drained \o frame_queue = LastN(pushLog, queue_capacity)

\* C4 witness: after such a run of puts, get_frame() has returned all the
\* kept frames.
C4_Witness ==
    /\ Len(pushLog) > queue_capacity
    /\ Len(drained) = queue_capacity
    /\ frame_queue = <<>>
    /\ cap_pc # "put"

\* C5: a get_frame() whose pop timed out returned the previous frame when
\* there was one (without capturing), and otherwise the result of a direct
\* capture; and once a frame has been put into the queue, get_frame() does
\* not return None.
C5_GetFrameFallback ==
    /\ gf.kind = "timeout" =>
         IF gf.prevBefore # None
            THEN gf.val = gf.prevBefore /\ ~gf.directCalled
            ELSE gf.directCalled /\ gf.val = gf.direct
    /\ (gf.kind # "none" /\ gf.pushedBefore) => gf.val # None

\* C5 witness: a timed-out get_frame() after frames were produced returned
\* the previous frame.
C5_Witness ==
    /\ gf.kind = "timeout"
    /\ gf.pushedBefore
    /\ gf.prevBefore # None
    /\ gf.val = gf.prevBefore

\* A pixel <<row, column>> lies inside region r = <<x, y, w, h>>.
InRegion(p, r) ==
    /\ r[1] <= p[2] /\ p[2] < r[1] + r[3]
    /\ r[2] <= p[1] /\ p[1] < r[2] + r[4]

RegionsOf(cfg) == {cfg[i] : i \in 1 .. Len(cfg)}

\* C6: every pixel of a captured frame that lies inside a configured
\* exclusion region (clipped to the frame) is zero, also for regions that
\* start at a negative x or y and extend into the frame; pixels inside no
\* region are unchanged.
C6_ExclusionMasking ==
    \A p \in Pixels :
        IF \E r \in RegionsOf(mk_cfg) : InRegion(p, r)
          THEN mk_img.px[p] = 0
          ELSE mk_img.px[p] = RawImage.px[p]

\* A pixel <<row, column>> lies inside the bounding box <<x1, y1, x2, y2>>.
InBox(p, bbox) ==
    /\ bbox[1] <= p[2] /\ p[2] < bbox[3]
    /\ bbox[2] <= p[1] /\ p[1] < bbox[4]

TargetBoxes == {mz_dets[i].bbox : i \in {j \in 1 .. Len(mz_dets) :
                                          mz_dets[j].class_name \in targets}}

\* C7: while a session is active on a platform with the window functions,
\* the watchdog runs and has not been told to stop, and once it has
\* completed a cycle after the latest activation of another window the
\* overlay is the top window again.
C7_TopmostRestored ==
    (platform = "full" /\ is_visible)
        => /\ Alive(topmost_thread)
           /\ ~topmost_stop_event
           /\ (topmost_log \in {"cycle_noop", "cycle_raised"} => win.z = "top")

\* Another window came above the overlay and a watchdog cycle raised it.
C7_Witness ==
    platform = "full" /\ is_visible /\ topmost_log = "cycle_raised"

\* C8: on a platform with the window functions, once show() has succeeded
\* test_click_through() and test_capture_protection() are both true; once
\* hide() has returned both are false.
C8_ProtectionFlags ==
    /\ (platform = "full" /\ is_visible)
          => (test_click_through /\ test_capture_protection)
    /\ (~is_visible /\ ~InsideHide)
          => (~test_click_through /\ ~test_capture_protection)

\* hide() has returned after a show() that succeeded.
C8_Witness ==
    /\ platform = "full"
    /\ ~is_visible
    /\ main_pc = "idle"
    /\ hwnd = "stale"

\* C9: for one processed frame, the frame handed to the overlay has the size
\* of the input, a pixel of it differs from the input only if it lies inside
\* the bounding box of a detection whose class is a target, and with no
\* target detection the frame is the input unchanged.
C9_MosaicFrameEffect ==
    mz_pc = "shown" =>
        /\ ~mz_out.raised
        /\ mz_out.frame.h = mz_in.h /\ mz_out.frame.w = mz_in.w
        /\ \A p \in DOMAIN mz_in.px :
              mz_out.frame.px[p] # mz_in.px[p] => \E b \in TargetBoxes : InBox(p, b)
        /\ TargetBoxes = {} => mz_out.frame = mz_in

\* C9 witness: a frame with a target detection came out pixelated inside
\* the box, and a pixel outside the box exists.
C9_Witness ==
    /\ mz_pc = "shown"
    /\ \E p \in DOMAIN mz_in.px : mz_out.frame.px[p] # mz_in.px[p]
    /\ \E p \in DOMAIN mz_in.px : \A b \in TargetBoxes : ~InBox(p, b)

\* C10: every apply_mosaic call on a region of size (w, h), w, h >= 1,
\* returns an image of exactly that size, for every strength, also on the
\* error path (strength 0); for a strength >= 1 the intermediate image has
\* max(1, dim // strength) pixels per axis.
C10_MosaicKeepsDimensions ==
    \A i \in 1 .. Len(mz_calls) :
        LET c == mz_calls[i] IN
        (c.in_h >= 1 /\ c.in_w >= 1) =>
            /\ c.out_h = c.in_h
            /\ c.out_w = c.in_w
            /\ c.strength >= 1 =>
                 /\ c.small_h = (IF c.in_h \div c.strength >= 1
                                   THEN c.in_h \div c.strength ELSE 1)
                 /\ c.small_w = (IF c.in_w \div c.strength >= 1
                                   THEN c.in_w \div c.strength ELSE 1)

\* C10 witness: a region larger than one pixel was downscaled to a smaller
\* image and came back with its own size.
C10_Witness ==
    /\ mz_calls # <<>>
    /\ mz_calls[1].strength > 1
    /\ mz_calls[1].in_h > 1
    /\ mz_calls[1].small_h < mz_calls[1].in_h
    /\ mz_calls[1].out_h = mz_calls[1].in_h
    /\ mz_calls[1].out_w = mz_calls[1].in_w

=============================================================================
